---- MODULE Spec2Model ----
(***************************************************************************)
(* State-machine model of the world rule engine (src/src/world/core.py)    *)
(* and of the actor-turn loop that drives it (src/src/main.py, run_demo).  *)
(*                                                                         *)
(* The engine keeps one aggregate, WORLD; every engine function is a pure  *)
(* operator from a world value to the world value it leaves behind, and an *)
(* action applies one public operation and records its ToolResponse        *)
(* metadata in `last`.  Dice are nondeterministic inputs of the actions.   *)
(***************************************************************************)
EXTENDS Integers, Sequences, FiniteSets, TLC

VARIABLES
    WORLD,      \* the World aggregate (core.py, class World)
    cur,        \* run_demo: index in participants of the actor whose turn it is
    phase,      \* run_demo: "start" (before reset) or "acting" (between reset and tick)
    last,       \* metadata of the last engine call's ToolResponse
    since       \* per actor: own end-of-turn ticks seen since it last entered dying

vars == <<WORLD, cur, phase, last, since>>

----------------------------------------------------------------------------
(* Bounds of the model *)

Actors == {"A", "B", "C", "D"}
MaxX == 2
MaxY == 1
MaxAmount == 2
MaxVersionLife == 9
Rolls == {5, 12, 28, 60}

Cells == (0..MaxX) \X (0..MaxY)
Amounts == 0..MaxAmount

----------------------------------------------------------------------------
(* Program constants *)

DEFAULT_MOVE_SPEED_STEPS == 6
DEFAULT_REACH_STEPS == 1
DYING_TURNS_DEFAULT == 3

\* Python's None for Optional[int] fields (dying_turns_left, remaining)
None == -1
\* positions.get(name) is None
NoPos == <<-1, -1>>
\* scene_of.get(name) is None; no protector; no target
NoName == "-"

CONTROL_STATUS_RULES ==
    [stunned    |-> {"all"},
     paralyzed  |-> {"all"},
     sleep      |-> {"all"},
     frozen     |-> {"all"},
     silenced   |-> {"cast"},
     rooted     |-> {"move"},
     immobilized |-> {"move"},
     restrained |-> {"move", "attack"}]

Max(a, b) == IF a >= b THEN a ELSE b
Min(a, b) == IF a <= b THEN a ELSE b
Abs(a) == IF a >= 0 THEN a ELSE -a

----------------------------------------------------------------------------
(* World aggregate helpers *)

_touch(w) == [w EXCEPT !.version = @ + 1]

add_status(w, name, state, duration_rounds, kind) ==
    [w EXCEPT !.conditions[name] =
        (state :> [remaining |-> duration_rounds, kind |-> kind]) @@ @]

remove_status(w, name, state) ==
    [w EXCEPT !.conditions[name] = [k \in (DOMAIN @) \ {state} |-> @[k]]]

_is_alive(w, name) == w.characters[name].hp > 0

_is_dying(w, name) == w.characters[name].dying_turns_left # None

is_dead(w, name) ==
    /\ w.characters[name].hp <= 0
    /\ w.characters[name].dying_turns_left = None

_default_move_steps ==
    IF DEFAULT_MOVE_SPEED_STEPS > 0 THEN DEFAULT_MOVE_SPEED_STEPS ELSE 1

_reset_turn_tokens_for(w, name) ==
    [w EXCEPT !.turn_state[name] =
        [action_used |-> FALSE,
         bonus_used |-> FALSE,
         reaction_available |-> TRUE,
         move_left |-> w.speeds[name]]]

----------------------------------------------------------------------------
(* Percentile skill checks *)

SkillDefaults ==
    [Stealth |-> 20, Perception |-> 25, Arts_Resist |-> 40, FirstAid |-> 30,
     Medicine |-> 5, MeleeWeapons |-> 25, RangedWeapons |-> 25,
     Fighting_Brawl |-> 25, Fighting_Blade |-> 30, Fighting_DualBlade |-> 25,
     Fighting_Polearm |-> 30, Fighting_Blunt |-> 25, Fighting_Shield |-> 20,
     Firearms_Handgun |-> 25, Firearms_Rifle_Crossbow |-> 30,
     Firearms_Shotgun |-> 25, Heavy_Weapons |-> 20,
     Throwables_Explosives |-> 30, Arts_Offense |-> 40, Arts_Control |-> 40]

Characteristics == {"STR", "DEX", "CON", "INT", "POW", "APP", "EDU", "SIZ", "LUCK"}

\* coc.characteristics entry of a sheet, or the default when it is absent
Char(st, key, default) == IF key \in DOMAIN st.chars THEN st.chars[key] ELSE default

\* a characteristic is read raw (50 when absent); a skill is its coc.skills
\* entry if present and truthy, else its default (Dodge defaults to DEX // 2,
\* an unknown skill to 25)
_coc_skill_value(w, name, skill) ==
    LET st == w.characters[name]
        skills == st.skills
    IN  IF skill \in Characteristics THEN Char(st, skill, 50)
        ELSE IF skill \in DOMAIN skills /\ skills[skill] # 0 THEN Max(0, skills[skill])
        ELSE IF skill = "Dodge" THEN Max(1, Char(st, "DEX", 50) \div 2)
        ELSE IF skill \in DOMAIN SkillDefaults THEN SkillDefaults[skill]
        ELSE 25

\* success level of a d100 roll against a target value: 3 extreme, 2 hard,
\* 1 regular, 0 fail
success_level(target, roll) ==
    LET t == Max(1, target)
        hard == Max(1, t \div 2)
        extreme == Max(1, t \div 5)
    IN  IF roll <= extreme THEN 3
        ELSE IF roll <= hard THEN 2
        ELSE IF roll <= t THEN 1
        ELSE 0

skill_check_coc(w, name, skill, roll) ==
    success_level(_coc_skill_value(w, name, skill), roll) > 0

----------------------------------------------------------------------------
(* Status gating *)

\* an expired status kept until its counter falls below zero
_tick_control_statuses_late(w, name) ==
    LET st == w.conditions[name]
        ticks(k) == st[k].kind = "control" /\ st[k].remaining # None
        expired == {k \in DOMAIN st : ticks(k) /\ st[k].remaining - 1 < 0}
    IN  [w EXCEPT !.conditions[name] =
            [k \in (DOMAIN st) \ expired |->
                IF ticks(k) THEN [st[k] EXCEPT !.remaining = @ - 1] ELSE st[k]]]

_tick_control_statuses(w, name) ==
    LET st == w.conditions[name]
        ticks(k) == st[k].kind = "control" /\ st[k].remaining # None
        expired == {k \in DOMAIN st : ticks(k) /\ st[k].remaining - 1 <= 0}
    IN  [w EXCEPT !.conditions[name] =
            [k \in (DOMAIN st) \ expired |->
                IF ticks(k) THEN [st[k] EXCEPT !.remaining = @ - 1] ELSE st[k]]]

SystemBlocked == {"move", "attack", "cast", "dash", "disengage", "action"}

_blocked_action(w, name, act) ==
    LET st == w.characters[name]
        sts == w.conditions[name]
    IN  \/ st.dying_turns_left # None /\ act \in SystemBlocked
        \/ st.hp <= 0 /\ act \in SystemBlocked
        \/ \E k \in DOMAIN sts :
              /\ k \in DOMAIN CONTROL_STATUS_RULES
              /\ LET blocks == CONTROL_STATUS_RULES[k] IN
                    \/ "all" \in blocks
                    \/ act \in blocks
                    \/ (act # "move" /\ "action" \in blocks)

----------------------------------------------------------------------------
(* Hit points, dying and death *)

_enter_dying(w, nm, turns) ==
    LET left == Max(0, turns)
        w1 == [w EXCEPT !.characters[nm].hp = 0,
                        !.characters[nm].dying_turns_left = left]
    IN  _touch(add_status(w1, nm, "dying", left, "system"))

_die(w, nm) ==
    LET w1 == [w EXCEPT !.characters[nm].hp = 0,
                        !.characters[nm].dying_turns_left = None]
    IN  _touch(add_status(remove_status(w1, nm, "dying"), nm, "dead", None, "system"))

\* the countdown compared with < instead of <=
tick_dying_for_late(w, nm) ==
    LET w1 == _tick_control_statuses(w, nm)
        left == w1.characters[nm].dying_turns_left
    IN  IF left = None THEN w1
        ELSE IF left < 0 THEN _die(w1, nm)
        ELSE IF left - 1 < 0
             THEN _die([w1 EXCEPT !.characters[nm].dying_turns_left = left - 1], nm)
             ELSE _touch([w1 EXCEPT !.characters[nm].dying_turns_left = left - 1])

tick_dying_for(w, nm) ==
    LET w1 == _tick_control_statuses(w, nm)
        left == w1.characters[nm].dying_turns_left
    IN  IF left = None THEN w1
        ELSE IF left <= 0 THEN _die(w1, nm)
        ELSE IF left - 1 <= 0
             THEN _die([w1 EXCEPT !.characters[nm].dying_turns_left = left - 1], nm)
             ELSE _touch([w1 EXCEPT !.characters[nm].dying_turns_left = left - 1])

\* a hit that empties the hit points kills at once
damage_kills(w, nm, amount) ==
    LET amt == Max(0, amount)
        w1 == IF amt > 0
              THEN [w EXCEPT !.characters[nm].injury_id = @ + 1]
              ELSE w
        hp_now == Max(0, w1.characters[nm].hp - amt)
    IN  IF w1.characters[nm].dying_turns_left # None \/ hp_now <= 0
        THEN _die(w1, nm)
        ELSE _touch([w1 EXCEPT !.characters[nm].hp = hp_now])

\* only a hit of a positive amount finishes a dying actor
damage_positive_only(w, nm, amount) ==
    LET amt == Max(0, amount)
        w1 == IF amt > 0
              THEN [w EXCEPT !.characters[nm].injury_id = @ + 1]
              ELSE w
        hp_now == Max(0, w1.characters[nm].hp - amt)
    IN  IF w1.characters[nm].dying_turns_left # None /\ amt > 0
        THEN _die(w1, nm)
        ELSE IF hp_now <= 0
             THEN _enter_dying([w1 EXCEPT !.characters[nm].hp = hp_now], nm,
                               DYING_TURNS_DEFAULT)
             ELSE _touch([w1 EXCEPT !.characters[nm].hp = hp_now])

damage(w, nm, amount) ==
    LET amt == Max(0, amount)
        w1 == IF amt > 0
              THEN [w EXCEPT !.characters[nm].injury_id = @ + 1]
              ELSE w
        hp_before == w1.characters[nm].hp
        hp_now == Max(0, hp_before - amt)
    IN  IF w1.characters[nm].dying_turns_left # None
        THEN _die(w1, nm)
        ELSE IF hp_now <= 0
             THEN _enter_dying([w1 EXCEPT !.characters[nm].hp = hp_now], nm,
                               DYING_TURNS_DEFAULT)
             ELSE _touch([w1 EXCEPT !.characters[nm].hp = hp_now])

\* the dying flag survives a heal
heal_keeps_dying(w, nm, amount) ==
    LET amt == Max(0, amount)
        st == w.characters[nm]
        hp_now == Min(IF st.max_hp > 0 THEN st.max_hp ELSE st.hp, st.hp + amt)
    IN  [w EXCEPT !.characters[nm].hp = hp_now]

heal(w, nm, amount) ==
    LET amt == Max(0, amount)
        st == w.characters[nm]
        hp_now == Min(IF st.max_hp > 0 THEN st.max_hp ELSE st.hp, st.hp + amt)
        w1 == [w EXCEPT !.characters[nm].hp = hp_now]
    IN  IF hp_now > 0 /\ st.dying_turns_left # None
        THEN remove_status([w1 EXCEPT !.characters[nm].dying_turns_left = None],
                           nm, "dying")
        ELSE w1

\* first_aid: the world it leaves and the error_type of its response
\* ("" when ok)
first_aid_err(w, name, chk_ok) ==
    IF _blocked_action(w, name, "action") THEN "attacker_unable"
    ELSE IF ~chk_ok THEN "check_failed"
    ELSE ""

\* first_aid that does not look at the injury it already treated
first_aid_again(w, name, target, roll) ==
    LET st == w.characters[target]
        chk_ok == skill_check_coc(w, name, "FirstAid", roll)
    IN  IF first_aid_err(w, name, chk_ok) # "" THEN w
        ELSE IF st.dying_turns_left # None
        THEN _touch(remove_status(
                [w EXCEPT !.characters[target].dying_turns_left = None,
                          !.characters[target].hp = Max(1, st.hp)],
                target, "dying"))
        ELSE IF st.max_hp # 0 /\ 0 < st.hp /\ st.hp < st.max_hp
        THEN _touch([w EXCEPT
                    !.characters[target].hp = Min(st.max_hp, st.hp + 1),
                    !.characters[target].first_aid_applied_on = st.injury_id])
        ELSE w

first_aid(w, name, target, roll) ==
    LET st == w.characters[target]
        chk_ok == skill_check_coc(w, name, "FirstAid", roll)
    IN  IF first_aid_err(w, name, chk_ok) # "" THEN w
        ELSE IF st.dying_turns_left # None
        THEN _touch(remove_status(
                [w EXCEPT !.characters[target].dying_turns_left = None,
                          !.characters[target].hp = Max(1, st.hp)],
                target, "dying"))
        ELSE IF st.max_hp # 0 /\ 0 < st.hp /\ st.hp < st.max_hp
        THEN IF st.first_aid_applied_on = st.injury_id /\ st.injury_id > 0
             THEN w
             ELSE _touch([w EXCEPT
                    !.characters[target].hp = Min(st.max_hp, st.hp + 1),
                    !.characters[target].first_aid_applied_on = st.injury_id])
        ELSE w

\* a turn start that leaves the resources as the last turn left them
reset_actor_turn_stale(w, name) == _touch(w)

\* a turn start that also roots the actor
reset_actor_turn_rooting(w, name) ==
    _touch(add_status(_reset_turn_tokens_for(w, name), name, "rooted", 1, "control"))

reset_actor_turn(w, name) == _touch(_reset_turn_tokens_for(w, name))

----------------------------------------------------------------------------
(* Derived statistics and the infection track *)

_coc7_hp_max(con, siz) == Max(1, (Max(0, con) + Max(0, siz)) \div 10)

\* hit points, max_hp and the MP cap recomputed from CON, SIZ and POW; the
\* current hp keeps its ratio to the old maximum
recompute_coc_derived(w, name) ==
    LET st == w.characters[name]
        hp_max == _coc7_hp_max(Char(st, "CON", 0), Char(st, "SIZ", 0))
        new_hp == IF st.max_hp > 0
                  THEN Min(hp_max, Max(0, (hp_max * Max(0, st.hp)) \div st.max_hp))
                  ELSE hp_max
        mp_cap == Max(0, Char(st, "POW", 0) \div 5)
    IN  IF ~st.coc THEN w
        ELSE _touch([w EXCEPT !.characters[name] =
                        [st EXCEPT !.max_hp = hp_max, !.hp = new_hp,
                                   !.max_mp = mp_cap,
                                   !.mp = Max(0, Min(mp_cap, st.mp))]])

\* no stage has a floor
_infection_stage_floor_none(stage) == 0

_infection_stage_floor(stage) ==
    IF stage <= 0 THEN 0 ELSE IF stage = 1 THEN 20 ELSE IF stage = 2 THEN 50 ELSE 80

\* the infection block created if absent and normalised: stage within 0..3,
\* stress not below the floor of the stage
_ensure_infection_block(w, name) ==
    LET inf == w.characters[name].infection
        stage == Max(0, Min(3, inf.stage))
        stress == Max(Max(0, inf.stress), _infection_stage_floor(stage))
    IN  [w EXCEPT !.characters[name].coc = TRUE,
                  !.characters[name].infection =
                        [inf EXCEPT !.stage = stage, !.stress = stress,
                                    !.crystal_density = Max(0, inf.crystal_density)]]

\* round((CON + POW) / 2.0) with Python's rounding of halves to even
HalfSum(con, pow) ==
    LET q == (con + pow) \div 2
    IN  IF (con + pow) % 2 = 0 THEN q
        ELSE IF q % 2 = 0 THEN q ELSE q + 1

\* target of the infection resist check (the block is ensured on the way)
_infection_resist_target(w, name, bonus) ==
    LET st == w.characters[name]
        sheet_resist == IF "resist" \in DOMAIN st.arts THEN st.arts["resist"] ELSE 0
        arts_resist == IF sheet_resist <= 0
                       THEN _coc_skill_value(w, name, "Arts_Resist")
                       ELSE sheet_resist
        base == Max(arts_resist, HalfSum(Char(st, "CON", 50), Char(st, "POW", 50)))
        stage == _ensure_infection_block(w, name).characters[name].infection.stage
    IN  Max(1, base + bonus - 10 * stage)

\* a stage advance with no top stage
advance_infection_stage_unbounded(w, name, choice) ==
    LET w1 == _ensure_infection_block(w, name)
        st == w1.characters[name]
        inf == st.infection
        new_stage == inf.stage + 1
        inf2 == [inf EXCEPT !.stage = new_stage,
                            !.crystal_density = @ + 1,
                            !.stress = Max(@, _infection_stage_floor(new_stage))]
        chars2 == [k \in DOMAIN st.chars \cup {"CON"} |->
                        IF k = "CON" THEN Max(1, Char(st, "CON", 50) - 5)
                        ELSE st.chars[k]]
        w2 == [w1 EXCEPT !.characters[name] =
                    [st EXCEPT !.infection = inf2, !.chars = chars2]]
    IN  [w |-> _touch(recompute_coc_derived(w2, name)), ok |-> TRUE]

\* advance_infection_stage: one stage up (3 at most) with its permanent
\* penalty, then the derived statistics are recomputed
advance_infection_stage(w, name, choice) ==
    LET w1 == _ensure_infection_block(w, name)
        st == w1.characters[name]
        inf == st.infection
        new_stage == Min(3, inf.stage + 1)
        choice_norm == IF choice \in {"con", "resist", "affinity"} THEN choice ELSE "con"
        inf2 == [inf EXCEPT !.stage = new_stage,
                            !.crystal_density = @ + 1,
                            !.stress = Max(@, _infection_stage_floor(new_stage)),
                            !.overcharge_step =
                                IF choice_norm = "affinity" THEN @ + 1 ELSE @]
        chars2 == IF choice_norm = "con"
                  THEN [k \in DOMAIN st.chars \cup {"CON"} |->
                            IF k = "CON" THEN Max(1, Char(st, "CON", 50) - 5)
                            ELSE st.chars[k]]
                  ELSE st.chars
        old_res == IF "resist" \in DOMAIN st.arts THEN st.arts["resist"] ELSE 40
        old_aff == IF "affinity" \in DOMAIN st.arts THEN st.arts["affinity"] ELSE 0
        arts2 == IF choice_norm = "resist"
                 THEN [k \in DOMAIN st.arts \cup {"resist"} |->
                            IF k = "resist" THEN Max(0, old_res - 10) ELSE st.arts[k]]
                 ELSE IF choice_norm = "affinity"
                 THEN [k \in DOMAIN st.arts \cup {"affinity"} |->
                            IF k = "affinity" THEN old_aff + 5 ELSE st.arts[k]]
                 ELSE st.arts
        w2 == [w1 EXCEPT !.characters[name] =
                    [st EXCEPT !.infection = inf2, !.chars = chars2, !.arts = arts2]]
    IN  IF inf.stage >= 3 THEN [w |-> w1, ok |-> FALSE]
        ELSE [w |-> _touch(recompute_coc_derived(w2, name)), ok |-> TRUE]

Dice(n, m, k) == [n |-> n, m |-> m, k |-> k]

\* no dice expression: none given, or one that is not valid
NoDice == Dice(0, 0, 0)

\* stress dice of an exposure: the custom expression if given (NoDice when
\* not), else by level
ExposureDice(level, dice_expr) ==
    IF dice_expr # NoDice THEN dice_expr
    ELSE IF level \in {"light", "minor"} THEN Dice(1, 4, 0)
    ELSE IF level \in {"medium", "moderate"} THEN Dice(1, 6, 1)
    ELSE IF level = "heavy" THEN Dice(2, 6, 0)
    ELSE IF level \in {"disaster", "catastrophic"} THEN Dice(2, 10, 0)
    ELSE Dice(0, 1, 0)

\* stress added for the rolled raw stress and the d100 resist roll
AdjustedStress(raw, target, roll) ==
    LET lvl == success_level(target, roll)
        fumble == lvl = 0 /\ roll >= 96
    IN  IF raw <= 0 THEN 0
        ELSE IF lvl = 3 THEN 0
        ELSE IF lvl > 0 THEN Max(1, raw \div 2)
        ELSE IF fumble THEN Max(1, (raw * 3) \div 2)
        ELSE Max(1, raw)

\* the rolls an exposure may draw after its stress dice: resist d100, and in
\* a severe flare the CON d100, the 1d6 damage, the POW d100 and 1d3 turns
ExposureRolls(roll, con_roll, dmg_raw, pow_roll, turns) ==
    [roll |-> roll, con_roll |-> con_roll, dmg_raw |-> dmg_raw,
     pow_roll |-> pow_roll, turns |-> turns]

\* a severe flare (threshold 80 crossed): counted, hurts unless the CON
\* check is extreme, stuns unless the POW check succeeds
SevereFlare(w, name, r) ==
    LET w1 == [w EXCEPT !.characters[name].infection.severe_flare_count = @ + 1]
        con_level == success_level(_coc_skill_value(w1, name, "CON"), r.con_roll)
        dmg == IF w1.characters[name].arts_barrier > 0
               THEN (r.dmg_raw + 1) \div 2
               ELSE r.dmg_raw
        w2 == IF con_level # 3 THEN damage(w1, name, dmg) ELSE w1
        pow_ok == success_level(_coc_skill_value(w2, name, "POW"), r.pow_roll) > 0
    IN  IF pow_ok THEN w2
        ELSE add_status(w2, name, "stunned", Max(1, r.turns), "control")

\* thresholds crossed by this exposure, then the stage advance when stress
\* passed 100 or two severe flares are on record
_handle_flares(w, name, before, after, r) ==
    LET w1 == IF before < 80 /\ 80 <= after THEN SevereFlare(w, name, r) ELSE w
        inf == w1.characters[name].infection
    IN  IF (after > 100 \/ inf.severe_flare_count >= 2) /\ inf.stage < 3
        THEN LET adv == _ensure_infection_block(
                            advance_infection_stage(w1, name, "auto").w, name)
             IN  [w |-> [adv EXCEPT !.characters[name].infection.severe_flare_count = 0],
                  final_stress |-> adv.characters[name].infection.stress]
        ELSE [w |-> w1, final_stress |-> after]

\* apply_exposure for the rolled raw stress and the further rolls
apply_exposure(w, name, bonus, raw, r) ==
    LET w1 == _ensure_infection_block(w, name)
        stress_before == w1.characters[name].infection.stress
        adj == AdjustedStress(raw, _infection_resist_target(w1, name, bonus), r.roll)
        stress_raw_after == stress_before + Max(0, adj)
        w2 == [w1 EXCEPT !.characters[name].infection.stress = stress_raw_after]
        fl == _handle_flares(w2, name, stress_before, stress_raw_after, r)
        w3 == _ensure_infection_block(fl.w, name)
    IN  _touch([w3 EXCEPT !.characters[name].infection.stress = fl.final_stress])

----------------------------------------------------------------------------
(* Turn resources *)

use_action_free(w, nm, kind) == [w |-> _touch(w), ok |-> TRUE, err |-> ""]

\* use_action that grants the resource without marking it consumed
use_action_unmarked(w, nm, kind) ==
    LET st == w.turn_state[nm] IN
    IF kind = "action" THEN
        IF st.action_used THEN [w |-> w, ok |-> FALSE, err |-> "resource_spent"]
        ELSE [w |-> _touch(w), ok |-> TRUE, err |-> ""]
    ELSE IF kind = "bonus" THEN
        IF st.bonus_used THEN [w |-> w, ok |-> FALSE, err |-> "resource_spent"]
        ELSE [w |-> _touch(w), ok |-> TRUE, err |-> ""]
    ELSE IF kind = "reaction" THEN
        IF ~st.reaction_available THEN [w |-> w, ok |-> FALSE, err |-> "resource_spent"]
        ELSE [w |-> _touch(w), ok |-> TRUE, err |-> ""]
    ELSE [w |-> w, ok |-> FALSE, err |-> "unknown_action"]

\* use_action: the world it leaves and the ok flag of its response
use_action(w, nm, kind) ==
    LET st == w.turn_state[nm] IN
    IF kind = "action" THEN
        IF st.action_used THEN [w |-> w, ok |-> FALSE, err |-> "resource_spent"]
        ELSE [w |-> _touch([w EXCEPT !.turn_state[nm].action_used = TRUE]),
              ok |-> TRUE, err |-> ""]
    ELSE IF kind = "bonus" THEN
        IF st.bonus_used THEN [w |-> w, ok |-> FALSE, err |-> "resource_spent"]
        ELSE [w |-> _touch([w EXCEPT !.turn_state[nm].bonus_used = TRUE]),
              ok |-> TRUE, err |-> ""]
    ELSE IF kind = "reaction" THEN
        IF ~st.reaction_available THEN [w |-> w, ok |-> FALSE, err |-> "resource_spent"]
        ELSE [w |-> _touch([w EXCEPT !.turn_state[nm].reaction_available = FALSE]),
              ok |-> TRUE, err |-> ""]
    ELSE [w |-> w, ok |-> FALSE, err |-> "unknown_action"]

----------------------------------------------------------------------------
(* Grid, distance and protection *)

_grid_distance(a, b) == Abs(a[1] - b[1]) + Abs(a[2] - b[2])

get_distance_any_scene(w, name_a, name_b) ==
    IF w.positions[name_a] = NoPos \/ w.positions[name_b] = NoPos THEN None
    ELSE _grid_distance(w.positions[name_a], w.positions[name_b])

\* None when the two actors are in different scenes or a position is unknown
get_distance_steps_between(w, name_a, name_b) ==
    LET sa == w.scene_of[name_a]
        sb == w.scene_of[name_b]
        pa == w.positions[name_a]
        pb == w.positions[name_b]
    IN  IF sa # NoName /\ sb # NoName /\ sa # sb THEN None
        ELSE IF pa = NoPos \/ pb = NoPos THEN None
        ELSE _grid_distance(pa, pb)

GuardCandidate_far(w, attacker, protectee, reach_steps, idx) ==
    LET g == w.guardians[protectee][idx]
        d_ag == get_distance_steps_between(w, attacker, g)
    IN  /\ _is_alive(w, g)
        /\ w.turn_state[g].reaction_available
        /\ d_ag # None /\ d_ag <= reach_steps

\* the guardian at index idx of the protectee's list may intercept
GuardCandidate(w, attacker, protectee, reach_steps, idx) ==
    LET g == w.guardians[protectee][idx]
        d_gp == get_distance_steps_between(w, g, protectee)
        d_ag == get_distance_steps_between(w, attacker, g)
    IN  /\ _is_alive(w, g)
        /\ d_gp # None /\ d_gp <= 1
        /\ w.turn_state[g].reaction_available
        /\ d_ag # None /\ d_ag <= reach_steps

GuardBefore_registration(w, attacker, protectee, i, j) == i <= j

\* candidate i sorts before candidate j: nearer to the attacker, then
\* registered earlier
GuardBefore(w, attacker, protectee, i, j) ==
    LET gs == w.guardians[protectee]
        di == get_distance_steps_between(w, attacker, gs[i])
        dj == get_distance_steps_between(w, attacker, gs[j])
    IN  di < dj \/ (di = dj /\ i <= j)

\* the final defender, the protector (NoName when none) and the world with
\* the protector's reaction spent
_resolve_guard_interception(w, attacker, defender, reach_steps) ==
    LET gs == w.guardians[defender]
        cand == {i \in 1..Len(gs) : GuardCandidate(w, attacker, defender, reach_steps, i)}
    IN  IF cand = {} THEN [w |-> w, defender |-> defender, guard |-> NoName]
        ELSE LET first == CHOOSE i \in cand :
                            \A j \in cand : GuardBefore(w, attacker, defender, i, j)
                 spent == use_action(w, gs[first], "reaction")
             IN  IF spent.ok
                 THEN [w |-> spent.w, defender |-> gs[first], guard |-> gs[first]]
                 ELSE [w |-> w, defender |-> defender, guard |-> NoName]

set_guard_unchecked(w, guardian, protectee) ==
    IF \E i \in 1..Len(w.guardians[protectee]) : w.guardians[protectee][i] = guardian
    THEN [w |-> w, ok |-> TRUE, err |-> ""]
    ELSE [w |-> _touch([w EXCEPT !.guardians[protectee] = Append(@, guardian)]),
          ok |-> TRUE, err |-> ""]

\* set_guard: blocked guardians are refused, a new link is appended once
set_guard(w, guardian, protectee) ==
    IF _blocked_action(w, guardian, "action")
    THEN [w |-> w, ok |-> FALSE, err |-> "attacker_unable"]
    ELSE IF \E i \in 1..Len(w.guardians[protectee]) : w.guardians[protectee][i] = guardian
         THEN [w |-> w, ok |-> TRUE, err |-> ""]
         ELSE [w |-> _touch([w EXCEPT !.guardians[protectee] = Append(@, guardian)]),
               ok |-> TRUE, err |-> ""]

Without(seq, g) == SelectSeq(seq, LAMBDA x : x # g)

\* clear_guard with guardian and/or protectee given (NoName for None)
clear_guard(w, guardian, protectee) ==
    IF guardian = NoName /\ protectee = NoName
    THEN _touch([w EXCEPT !.guardians = [n \in Actors |-> <<>>]])
    ELSE IF guardian = NoName
    THEN IF Len(w.guardians[protectee]) > 0
         THEN _touch([w EXCEPT !.guardians[protectee] = <<>>])
         ELSE w
    ELSE IF protectee = NoName
    THEN LET cleared == [w EXCEPT !.guardians =
                            [n \in Actors |-> Without(w.guardians[n], guardian)]]
         IN  IF cleared = w THEN w ELSE _touch(cleared)
    ELSE LET cleared == [w EXCEPT !.guardians[protectee] = Without(@, guardian)]
         IN  IF cleared = w THEN w ELSE _touch(cleared)

----------------------------------------------------------------------------
(* Movement *)

\* where `steps` 4-way steps from `from` towards `to` end: x first, then y
Walk(from, to, steps) ==
    LET dx == Abs(to[1] - from[1])
        sx == Min(steps, dx)
        sy == Min(steps - sx, Abs(to[2] - from[2]))
        x == IF to[1] > from[1] THEN from[1] + sx ELSE from[1] - sx
        y == IF to[2] > from[2] THEN from[2] + sy ELSE from[2] - sy
    IN  <<x, y>>

\* a move that walks the steps asked for whatever is left of the budget
move_towards_unbudgeted(w, name, target, steps) ==
    IF Len(w.participants) > 0 /\ ~\E i \in 1..Len(w.participants) : w.participants[i] = name
    THEN [w |-> w, ok |-> FALSE, err |-> "not_participant", moved |-> 0]
    ELSE IF _blocked_action(w, name, "move")
    THEN [w |-> w, ok |-> FALSE, err |-> "attacker_unable", moved |-> 0]
    ELSE LET left == w.turn_state[name].move_left
             steps_eff == IF steps = None THEN left ELSE steps
             allowed == Max(0, steps_eff)
             current == IF w.positions[name] = NoPos THEN <<0, 0>> ELSE w.positions[name]
             moved == Min(allowed, _grid_distance(current, target))
         IN  IF allowed = 0
             THEN [w |-> w, ok |-> TRUE, err |-> "", moved |-> 0]
             ELSE [w |-> _touch([w EXCEPT
                        !.positions[name] = Walk(current, target, moved),
                        !.turn_state[name].move_left = Max(0, left - moved)]),
                   ok |-> TRUE, err |-> "", moved |-> moved]

\* move_towards; steps = None means "use what is left of the turn's budget"
move_towards(w, name, target, steps) ==
    IF Len(w.participants) > 0 /\ ~\E i \in 1..Len(w.participants) : w.participants[i] = name
    THEN [w |-> w, ok |-> FALSE, err |-> "not_participant", moved |-> 0]
    ELSE IF _blocked_action(w, name, "move")
    THEN [w |-> w, ok |-> FALSE, err |-> "attacker_unable", moved |-> 0]
    ELSE LET left == w.turn_state[name].move_left
             steps_eff == IF steps = None THEN left ELSE steps
             allowed == Max(0, Min(Max(0, steps_eff), Max(0, left)))
             current == IF w.positions[name] = NoPos THEN <<0, 0>> ELSE w.positions[name]
             moved == Min(allowed, _grid_distance(current, target))
         IN  IF allowed = 0
             THEN [w |-> w, ok |-> TRUE, err |-> "", moved |-> 0]
             ELSE [w |-> _touch([w EXCEPT
                        !.positions[name] = Walk(current, target, moved),
                        !.turn_state[name].move_left = Max(0, left - moved)]),
                   ok |-> TRUE, err |-> "", moved |-> moved]

----------------------------------------------------------------------------
(* Construction *)

MaxHP == 2
MoveSpeed == 2

Sheet(hp, max_hp) ==
    [hp |-> hp, max_hp |-> max_hp, dying_turns_left |-> None,
     injury_id |-> 0, first_aid_applied_on |-> -1,
     skills |-> <<>>, physical_armor |-> 0, arts_barrier |-> 0,
     mp |-> 0, max_mp |-> 0, coc |-> FALSE, chars |-> <<>>, arts |-> <<>>,
     infection |-> [stage |-> 0, stress |-> 0, crystal_density |-> 0,
                    severe_flare_count |-> 0, overcharge_step |-> 0]]

FreshTurn(spd) ==
    [action_used |-> FALSE, bonus_used |-> FALSE,
     reaction_available |-> TRUE, move_left |-> spd]

\* a response without the key matched_ids
NoIds == <<NoName>>

\* ending_state of a story that has not ended (None in the program), in
\* the shape of a frozen verdict
NoEnding ==
    [ok |-> TRUE, ended |-> FALSE, ending_id |-> NoName, label |-> NoName,
     outcome |-> NoName, reasons |-> <<>>, time_min |-> None]

\* the world after the authored data is loaded: full hit points, nobody
\* dying, no status, no protection link, version 0
World(participants, positions, scene_of, inventory) ==
    [version |-> 0,
     characters |-> [n \in Actors |-> Sheet(MaxHP, MaxHP)],
     positions |-> positions,
     scene_of |-> scene_of,
     turn_state |-> [n \in Actors |-> FreshTurn(MoveSpeed)],
     speeds |-> [n \in Actors |-> MoveSpeed],
     conditions |-> [n \in Actors |-> <<>>],
     inventory |-> inventory,
     guardians |-> [n \in Actors |-> <<>>],
     cover |-> [n \in Actors |-> "none"],
     participants |-> participants,
     time_min |-> 0,
     tension |-> 1,
     events |-> <<>>,
     endings_defs |-> <<>>,
     ending_state |-> NoEnding]

\* a call and the metadata of its ToolResponse: the operation, its acting and
\* target actor, the ok flag and error_type, the amounts handed to damage()
\* and to heal() (None when not called), the protector that intercepted and
\* the actor it protected (NoName when nobody intercepted), whether the
\* attack hit, the weapon or art named and its reach (None before it is
\* looked up), the MP a cast spent and whether it overcharged, the winner of
\* an opposed check and the two d100 it rolled, the kind of turn resource
\* asked of use_action, the stress dice an overcharge handed to
\* apply_exposure, the verdict an ending call returned with its matched_ids,
\* the id and note given to end_now, the parameter the schema gate refused
\* and the parameters the tool was called with, the damage total rolled
Meta(op, actor, target, ok, err) ==
    [op |-> op, actor |-> actor, target |-> target, ok |-> ok, err |-> err,
     dmg |-> None, healed |-> None, guard |-> NoName, protected |-> NoName,
     hit |-> FALSE, weapon |-> NoName, reach |-> None,
     mp_spent |-> None, overcharge |-> FALSE,
     winner |-> NoName, ra |-> None, rb |-> None, kind |-> "",
     stress_die |-> [n |-> 0, m |-> 0, k |-> 0],
     verdict |-> NoEnding, matched_ids |-> NoIds,
     ending_id |-> NoName, note |-> NoName, param |-> NoName,
     args |-> <<>>, rolled |-> None]

----------------------------------------------------------------------------
(* Opposed checks and weapon attacks *)

\* contest() with an exact tie given to the first side
contest_tie_to_first(w, a, a_skill, b, b_skill, ra, rb) ==
    IF _is_dying(w, a) /\ ~_is_dying(w, b) THEN b
    ELSE IF _is_dying(w, b) /\ ~_is_dying(w, a) THEN a
    ELSE IF _is_dying(w, a) /\ _is_dying(w, b) THEN b
    ELSE LET la == success_level(_coc_skill_value(w, a, a_skill), ra)
             lb == success_level(_coc_skill_value(w, b, b_skill), rb)
         IN  IF la # lb THEN (IF la > lb THEN a ELSE b)
             ELSE IF ra # rb THEN (IF ra < rb THEN a ELSE b)
             ELSE a

\* winner of contest(a, a_skill, b, b_skill) for the two d100 rolls
contest(w, a, a_skill, b, b_skill, ra, rb) ==
    IF _is_dying(w, a) /\ ~_is_dying(w, b) THEN b
    ELSE IF _is_dying(w, b) /\ ~_is_dying(w, a) THEN a
    ELSE IF _is_dying(w, a) /\ _is_dying(w, b) THEN b
    ELSE LET la == success_level(_coc_skill_value(w, a, a_skill), ra)
             lb == success_level(_coc_skill_value(w, b, b_skill), rb)
         IN  IF la # lb THEN (IF la > lb THEN a ELSE b)
             ELSE IF ra # rb THEN (IF ra < rb THEN a ELSE b)
             ELSE b

\* a dying defender is hit whatever the attacker rolled
_attack_run_check_or_contest_sure(w, attacker, defender, skill_name, defense_skill_name, attacker_value, ra, rb) ==
    LET av == IF attacker_value # None THEN attacker_value
              ELSE _coc_skill_value(w, attacker, skill_name)
    IN  IF _is_dying(w, defender) THEN TRUE
        ELSE IF attacker_value = None
        THEN contest(w, attacker, skill_name, defender, defense_skill_name, ra, rb) = attacker
        ELSE IF _is_dying(w, attacker) THEN FALSE
        ELSE LET la == success_level(av, ra)
                 lb == success_level(_coc_skill_value(w, defender, defense_skill_name), rb)
             IN  IF la # lb THEN la > lb
                 ELSE IF ra # rb THEN ra < rb
                 ELSE FALSE

\* success of the attack: a lone attack roll against a dying defender, an
\* opposed check otherwise; attacker_value = None reads the sheet
_attack_run_check_or_contest(w, attacker, defender, skill_name, defense_skill_name, attacker_value, ra, rb) ==
    LET av == IF attacker_value # None THEN attacker_value
              ELSE _coc_skill_value(w, attacker, skill_name)
    IN  IF _is_dying(w, defender) THEN success_level(av, ra) > 0
        ELSE IF attacker_value = None
        THEN contest(w, attacker, skill_name, defender, defense_skill_name, ra, rb) = attacker
        ELSE IF _is_dying(w, attacker) THEN FALSE
        ELSE LET la == success_level(av, ra)
                 lb == success_level(_coc_skill_value(w, defender, defense_skill_name), rb)
             IN  IF la # lb THEN la > lb
                 ELSE IF ra # rb THEN ra < rb
                 ELSE FALSE

\* totals roll_dice can return for NdM+K
DiceTotals(d) == (Max(1, d.n) + d.k)..(Max(1, d.n) * d.m + d.k)

\* the rolled total goes through damage() whole
_attack_apply_damage_bare(w, defender, total, damage_type, defender_sheet) ==
    [w |-> damage(w, defender, total), final |-> total]

\* armour or barrier is subtracted from the rolled total, the rest goes
\* through damage()
_attack_apply_damage(w, defender, total, damage_type, defender_sheet) ==
    LET reduced == IF damage_type = "arts"
                   THEN Max(0, defender_sheet.arts_barrier)
                   ELSE Max(0, defender_sheet.physical_armor)
        final == Max(0, total - reduced)
    IN  [w |-> damage(w, defender, final), final |-> final]

\* the authored weapon table (reach in steps, attack and defence skill,
\* damage dice)
weapon_defs ==
    [sword |-> [reach_steps |-> 1, skill |-> "Fighting_Blade",
                defense_skill |-> "Dodge", damage |-> [n |-> 1, m |-> 2, k |-> 0],
                damage_type |-> "physical"],
     bow |-> [reach_steps |-> 3, skill |-> "Firearms_Rifle_Crossbow",
              defense_skill |-> "Dodge", damage |-> [n |-> 1, m |-> 2, k |-> -1],
              damage_type |-> "physical"],
     wand |-> [reach_steps |-> 2, skill |-> "Arts_Offense",
               defense_skill |-> "Dodge", damage |-> [n |-> 1, m |-> 2, k |-> 1],
               damage_type |-> "arts"]]

IsParticipant(w, name) ==
    \E i \in 1..Len(w.participants) : w.participants[i] = name

OwnsWeapon_always(w, attacker, weapon) == TRUE

\* ownership gate: the attacker's bag counts at least one of the weapon
OwnsWeapon(w, attacker, weapon) ==
    /\ weapon \in DOMAIN w.inventory[attacker]
    /\ w.inventory[attacker][weapon] > 0

AttackMeta(attacker, defender, weapon, ok, err) ==
    [Meta("attack", attacker, defender, ok, err) EXCEPT !.weapon = weapon]

\* attack_with_weapon for the two d100 rolls and the damage total rolled
attack_with_weapon(w, attacker, defender, weapon, ra, rb, total) ==
    IF Len(w.participants) > 0
       /\ (~IsParticipant(w, attacker) \/ ~IsParticipant(w, defender))
    THEN [w |-> w, meta |-> AttackMeta(attacker, defender, weapon, FALSE, "not_participant")]
    ELSE IF _blocked_action(w, attacker, "attack")
    THEN [w |-> w, meta |-> AttackMeta(attacker, defender, weapon, FALSE, "attacker_unable")]
    ELSE IF weapon \notin DOMAIN weapon_defs
            \/ "defense_skill" \notin DOMAIN weapon_defs[weapon]
            \/ "damage" \notin DOMAIN weapon_defs[weapon]
    THEN [w |-> w, meta |-> AttackMeta(attacker, defender, weapon, FALSE, "weapon_def_invalid")]
    ELSE IF ~OwnsWeapon(w, attacker, weapon)
    THEN [w |-> w, meta |-> AttackMeta(attacker, defender, weapon, FALSE, "weapon_not_owned")]
    ELSE
    LET wd == weapon_defs[weapon]
        reach_steps == Max(1, wd.reach_steps)
        gi == _resolve_guard_interception(w, attacker, defender, reach_steps)
        defender2 == gi.defender
        dfd == gi.w.characters[defender2]
        distance_before == get_distance_steps_between(gi.w, attacker, defender2)
        protected == IF gi.guard = NoName THEN NoName ELSE defender
    IN  IF distance_before = None \/ distance_before > reach_steps
        THEN [w |-> gi.w,
              meta |-> [AttackMeta(attacker, defender2, weapon, FALSE, "out_of_reach") EXCEPT
                            !.guard = gi.guard, !.protected = protected,
                            !.reach = reach_steps]]
        ELSE IF "skill" \notin DOMAIN wd
        THEN [w |-> gi.w,
              meta |-> AttackMeta(attacker, defender2, weapon, FALSE, "weapon_def_invalid")]
        ELSE
        LET success == _attack_run_check_or_contest(gi.w, attacker, defender2,
                            wd.skill, wd.defense_skill, None, ra, rb)
            applied == IF success
                       THEN _attack_apply_damage(gi.w, defender2, total, wd.damage_type, dfd)
                       ELSE [w |-> gi.w, final |-> None]
        IN  [w |-> _touch(applied.w),
             meta |-> [AttackMeta(attacker, defender2, weapon, TRUE, "") EXCEPT
                            !.guard = gi.guard, !.protected = protected,
                            !.reach = reach_steps,
                            !.hit = success, !.dmg = applied.final]]

----------------------------------------------------------------------------
(* Originium arts *)

\* spend_mp that refuses a payment of all the MP left
spend_mp_strict(w, name, amount) ==
    LET amt == Max(0, amount)
        cur_mp == w.characters[name].mp
    IN  IF amt <= 0 THEN [w |-> w, ok |-> TRUE, err |-> ""]
        ELSE IF cur_mp <= amt THEN [w |-> w, ok |-> FALSE, err |-> "mp_insufficient"]
        ELSE [w |-> [w EXCEPT !.characters[name].mp = cur_mp - amt],
              ok |-> TRUE, err |-> ""]

\* spend_mp: nothing to pay, not enough, or paid
spend_mp(w, name, amount) ==
    LET amt == Max(0, amount)
        cur_mp == w.characters[name].mp
    IN  IF amt <= 0 THEN [w |-> w, ok |-> TRUE, err |-> ""]
        ELSE IF cur_mp < amt THEN [w |-> w, ok |-> FALSE, err |-> "mp_insufficient"]
        ELSE [w |-> [w EXCEPT !.characters[name].mp = cur_mp - amt],
              ok |-> TRUE, err |-> ""]

AbilityTokens == {"STR", "DEX", "CON", "INT", "SIZ", "APP", "EDU"}

\* a formula NdM+K+TOKEN after _replace_art_tokens: an ability token becomes
\* a tenth of the caster's characteristic, no token ("") adds nothing; NoDice
\* when a letter other than the dice 'd' is left in it
ArtDice(w, attacker, expr) ==
    IF expr.token = "" THEN Dice(expr.n, expr.m, expr.k)
    ELSE IF expr.token \in AbilityTokens
    THEN Dice(expr.n, expr.m,
              expr.k + Max(0, Char(w.characters[attacker], expr.token, 50) \div 10))
    ELSE NoDice

\* a duration K+TOKEN after substitution: its rounds, and whether no letter
\* is left in it
ArtDuration(w, attacker, expr) ==
    IF expr.token = "" THEN [valid |-> TRUE, rounds |-> expr.k]
    ELSE IF expr.token \in AbilityTokens
    THEN [valid |-> TRUE,
          rounds |-> expr.k + Max(0, Char(w.characters[attacker], expr.token, 50) \div 10)]
    ELSE [valid |-> FALSE, rounds |-> 1]

Formula(n, m, k, token) == [n |-> n, m |-> m, k |-> k, token |-> token]

\* the authored arts table
arts_defs ==
    [bolt |-> [cast_skill |-> "Arts_Offense", resist |-> "Arts_Resist",
               range_steps |-> 2, damage_type |-> "arts",
               damage |-> Formula(1, 2, 0, ""),
               mp |-> [cost |-> 1, variable |-> FALSE, max |-> 0],
               tags |-> {}],
     mend |-> [cast_skill |-> "Medicine", resist |-> "Arts_Resist",
               range_steps |-> 1, damage_type |-> "arts",
               heal |-> Formula(1, 2, -1, ""),
               mp |-> [cost |-> 0, variable |-> FALSE, max |-> 0],
               tags |-> {"line-of-sight"}],
     bind |-> [cast_skill |-> "Arts_Control", resist |-> "Arts_Resist",
               range_steps |-> 2, damage_type |-> "arts",
               control |-> [effect |-> "rooted", duration |-> [k |-> 1, token |-> ""]],
               mp |-> [cost |-> 1, variable |-> TRUE, max |-> 2],
               tags |-> {"guard-intercept"}],
     surge |-> [cast_skill |-> "Arts_Offense", resist |-> "Arts_Resist",
                range_steps |-> 2, damage_type |-> "arts",
                damage |-> Formula(1, 2, 0, "MP"),
                mp |-> [cost |-> 1, variable |-> FALSE, max |-> 0],
                tags |-> {}],
     drain |-> [cast_skill |-> "Arts_Offense", resist |-> "Arts_Resist",
                range_steps |-> 2, damage_type |-> "arts",
                damage |-> Formula(1, 2, 0, ""),
                heal |-> Formula(1, 2, 0, "POW"),
                mp |-> [cost |-> 2, variable |-> FALSE, max |-> 0],
                tags |-> {}]]

\* every overcharge charged the base dice
OverchargeDice_flat(step) == Dice(1, 4, 0)

\* stress dice of an overcharge, stepped up overcharge_step times
OverchargeDice(step) ==
    IF step <= 0 THEN Dice(1, 4, 0)
    ELSE IF step = 1 THEN Dice(1, 6, 0)
    ELSE IF step = 2 THEN Dice(1, 6, 1)
    ELSE IF step = 3 THEN Dice(2, 6, 0)
    ELSE Dice(2, 6, 2)

\* the rolls a cast may draw: the two d100 of the contest, the damage and
\* heal dice totals, the stress dice of an overcharge and its further rolls
CastRolls(ra, rb, total, heal_total, raw, exposure) ==
    [ra |-> ra, rb |-> rb, total |-> total, heal_total |-> heal_total,
     raw |-> raw, exposure |-> exposure]

CastMeta(attacker, target, art, ok, err) ==
    [Meta("cast", attacker, target, ok, err) EXCEPT !.weapon = art]

\* MP payment of a cast: paid as asked, or the overcharge that empties the
\* caster's MP, lowers the cast skill by 20 and pushes the caster through an
\* exposure
CastPayment(w, attacker, ad, mp_spent, rl) ==
    LET mp_cost == ad.mp.cost
        req == Max(0, mp_cost)
        want == IF mp_spent # None THEN mp_spent ELSE req
        cap == w.characters[attacker].mp
        hard_max == IF ad.mp.max > 0 THEN ad.mp.max ELSE cap
        asked == IF ad.mp.variable
                 THEN Max(req, Min(hard_max, Min(want, cap)))
                 ELSE req
        spent == spend_mp(w, attacker, asked)
        cur_mp == w.characters[attacker].mp
        emptied == IF cur_mp > 0 THEN [w EXCEPT !.characters[attacker].mp = 0] ELSE w
        lowered == Max(0, _coc_skill_value(w, attacker, ad.cast_skill) - 20)
        ensured == _ensure_infection_block(emptied, attacker)
        step == ensured.characters[attacker].infection.overcharge_step
    IN  IF spent.ok
        THEN [w |-> spent.w, ok |-> TRUE, eff_spent |-> asked,
              overcharge |-> FALSE, atk_value_override |-> None, die |-> NoDice]
        ELSE IF spent.err = "mp_insufficient" /\ mp_cost > 0
        THEN [w |-> apply_exposure(ensured, attacker, 0, rl.raw, rl.exposure),
              ok |-> TRUE, eff_spent |-> IF cur_mp > 0 THEN cur_mp ELSE 0,
              overcharge |-> TRUE,
              atk_value_override |-> IF lowered <= 0 THEN 1 ELSE lowered,
              die |-> OverchargeDice(step)]
        ELSE [w |-> w, ok |-> FALSE, eff_spent |-> 0,
              overcharge |-> FALSE, atk_value_override |-> None, die |-> NoDice]

\* the effects of a cast that succeeded, in the order damage, heal,
\* control; a formula left with a letter ends the cast where it stands
CastEffects(w, attacker, tgt, ad, rl) ==
    LET dmg_dice == IF "damage" \in DOMAIN ad THEN ArtDice(w, attacker, ad.damage) ELSE NoDice
        heal_dice == IF "heal" \in DOMAIN ad THEN ArtDice(w, attacker, ad.heal) ELSE NoDice
        dur == IF "control" \in DOMAIN ad /\ ad.control.effect # ""
               THEN ArtDuration(w, attacker, ad.control.duration)
               ELSE [valid |-> TRUE, rounds |-> 1]
        hurt == IF "damage" \in DOMAIN ad
                THEN _attack_apply_damage(w, tgt, rl.total, ad.damage_type, w.characters[tgt])
                ELSE [w |-> w, final |-> None]
        healed == Max(0, rl.heal_total)
        mended == IF "heal" \in DOMAIN ad THEN heal(hurt.w, tgt, healed) ELSE hurt.w
    IN  IF "damage" \in DOMAIN ad /\ dmg_dice = NoDice
        THEN [w |-> w, err |-> "art_damage_expr_invalid", dmg |-> None, healed |-> None]
        ELSE IF "heal" \in DOMAIN ad /\ heal_dice = NoDice
        THEN [w |-> hurt.w, err |-> "art_heal_expr_invalid", dmg |-> hurt.final,
              healed |-> None]
        ELSE IF "control" \in DOMAIN ad /\ ad.control.effect # "" /\ ~dur.valid
        THEN [w |-> mended, err |-> "art_duration_expr_invalid", dmg |-> hurt.final,
              healed |-> IF "heal" \in DOMAIN ad THEN healed ELSE None]
        ELSE [w |-> IF "control" \in DOMAIN ad /\ ad.control.effect # ""
                    THEN add_status(mended, tgt, ad.control.effect, dur.rounds, "control")
                    ELSE mended,
              err |-> "", dmg |-> hurt.final,
              healed |-> IF "heal" \in DOMAIN ad THEN healed ELSE None]

\* the response of a cast whose contest succeeded, from its effects eff
CastOutcome(eff, told) ==
    IF eff.err # ""
    THEN [w |-> eff.w,
          meta |-> [told EXCEPT !.err = eff.err, !.dmg = eff.dmg, !.healed = eff.healed]]
    ELSE [w |-> _touch(eff.w),
          meta |-> [told EXCEPT !.ok = TRUE, !.dmg = eff.dmg, !.healed = eff.healed]]

\* the end of a cast whose MP is paid: contest, effects, version
CastResolve(attacker, tgt, ad, rl, paid, base) ==
    LET success == _attack_run_check_or_contest(paid.w, attacker, tgt,
                        ad.cast_skill, ad.resist, paid.atk_value_override,
                        rl.ra, rl.rb)
    IN  IF ~paid.ok
        THEN [w |-> paid.w, meta |-> [base EXCEPT !.err = "mp_insufficient"]]
        ELSE IF ~success
        THEN [w |-> _touch(paid.w),
              meta |-> [base EXCEPT !.ok = TRUE, !.mp_spent = paid.eff_spent,
                                    !.overcharge = paid.overcharge,
                                    !.stress_die = paid.die]]
        ELSE CastOutcome(CastEffects(paid.w, attacker, tgt, ad, rl),
                         [base EXCEPT !.mp_spent = paid.eff_spent,
                                      !.overcharge = paid.overcharge,
                                      !.stress_die = paid.die,
                                      !.hit = TRUE])

\* a cast after the optional interception gi: range, line of sight, payment
CastAt(attacker, art, target, mp_spent, rl, gi) ==
    LET ad == arts_defs[art]
        rng == ad.range_steps
        dist == get_distance_steps_between(gi.w, attacker, gi.defender)
        base == [CastMeta(attacker, gi.defender, art, FALSE, "") EXCEPT
                    !.guard = gi.guard,
                    !.protected = IF gi.guard = NoName THEN NoName ELSE target,
                    !.reach = rng]
    IN  IF dist = None \/ dist > rng
        THEN [w |-> gi.w, meta |-> [base EXCEPT !.err = "out_of_reach"]]
        ELSE IF "line-of-sight" \in ad.tags /\ gi.w.cover[gi.defender] = "total"
        THEN [w |-> gi.w, meta |-> [base EXCEPT !.err = "no_los"]]
        ELSE CastResolve(attacker, gi.defender, ad, rl,
                         CastPayment(gi.w, attacker, ad, mp_spent, rl), base)

\* cast_arts; target = NoName and mp_spent = None when not given
cast_arts(w, attacker, art, target, mp_spent, rl) ==
    IF _blocked_action(w, attacker, "cast")
    THEN [w |-> w, meta |-> CastMeta(attacker, target, art, FALSE, "attacker_unable")]
    ELSE IF Len(w.participants) > 0
            /\ (~IsParticipant(w, attacker)
                \/ (target # NoName /\ ~IsParticipant(w, target)))
    THEN [w |-> w, meta |-> CastMeta(attacker, target, art, FALSE, "not_participant")]
    ELSE IF art \notin DOMAIN arts_defs
    THEN [w |-> w, meta |-> CastMeta(attacker, target, art, FALSE, "unknown_art")]
    ELSE IF arts_defs[art].cast_skill = "" \/ arts_defs[art].resist = ""
    THEN [w |-> w, meta |-> CastMeta(attacker, target, art, FALSE, "art_def_invalid")]
    ELSE IF target = NoName
    THEN [w |-> w, meta |-> CastMeta(attacker, target, art, FALSE, "missing_param")]
    ELSE IF "guard-intercept" \in arts_defs[art].tags
            \/ "allow-guard-intercept" \in arts_defs[art].tags
    THEN CastAt(attacker, art, target, mp_spent, rl,
                _resolve_guard_interception(w, attacker, target, arts_defs[art].range_steps))
    ELSE CastAt(attacker, art, target, mp_spent, rl,
                [w |-> w, defender |-> target, guard |-> NoName])

----------------------------------------------------------------------------
(* Endings, the clock and the timeline *)

\* a node of a when-clause: "all" and "any" over parts, "not" over its one
\* part, or a leaf with a number n, a list of names and a require mode
Node(k, parts, n, names, require) ==
    [k |-> k, parts |-> parts, n |-> n, names |-> names, require |-> require]

AllOf(parts) == Node("all", parts, 0, <<>>, "")
AnyOf(parts) == Node("any", parts, 0, <<>>, "")
NotOf(part) == Node("not", <<part>>, 0, <<>>, "")
Leaf(k, n) == Node(k, <<>>, n, <<>>, "")
ActorsLeaf(k, names, require) == Node(k, <<>>, 0, names, require)

\* _alive of the endings evaluation: hp above 0 and not dying
_alive(w, name) == w.characters[name].hp > 0 /\ ~_is_dying(w, name)

RECURSIVE ConcatAll(_)
ConcatAll(seqs) ==
    IF seqs = <<>> THEN <<>> ELSE Head(seqs) \o ConcatAll(Tail(seqs))

\* _eval_when: whether the clause holds in w, and the reasons it matched
RECURSIVE _eval_when(_, _)
_eval_when(w, node) ==
    LET rs == [i \in 1..Len(node.parts) |-> _eval_when(w, node.parts[i])]
        hits == {i \in 1..Len(node.parts) : rs[i].ok}
        first == CHOOSE i \in hits : \A j \in hits : i <= j
        vals == [i \in 1..Len(node.names) |->
                    IF node.k = "actors_alive" THEN _alive(w, node.names[i])
                    ELSE ~_alive(w, node.names[i])]
        held == IF node.require = "all" THEN \A i \in DOMAIN vals : vals[i]
                ELSE \E i \in DOMAIN vals : vals[i]
        leaf(ok) == [ok |-> ok, reasons |-> IF ok THEN <<node.k>> ELSE <<>>]
    IN  IF node.k = "all"
        THEN IF hits = 1..Len(node.parts)
             THEN [ok |-> TRUE, reasons |-> ConcatAll([i \in 1..Len(rs) |-> rs[i].reasons])]
             ELSE [ok |-> FALSE, reasons |-> <<>>]
        ELSE IF node.k = "any"
        THEN IF hits # {} THEN [ok |-> TRUE, reasons |-> rs[first].reasons]
             ELSE [ok |-> FALSE, reasons |-> <<>>]
        ELSE IF node.k = "not"
        THEN [ok |-> ~rs[1].ok, reasons |-> IF rs[1].ok THEN <<>> ELSE <<"not">>]
        ELSE IF node.k = "time_before" THEN leaf(node.n >= 0 /\ w.time_min < node.n)
        ELSE IF node.k = "time_at_least" THEN leaf(node.n >= 0 /\ w.time_min >= node.n)
        ELSE IF node.k \in {"actors_alive", "actors_dead"}
        THEN leaf(node.names # <<>> /\ held)
        ELSE IF node.k = "tension_at_least" THEN leaf(w.tension >= node.n)
        ELSE IF node.k = "tension_at_most" THEN leaf(w.tension <= node.n)
        ELSE [ok |-> FALSE, reasons |-> <<>>]

\* a rule of the endings table after _normalize_endings_list
Ending(id, label, outcome, priority, when) ==
    [id |-> id, label |-> label, outcome |-> outcome, priority |-> priority,
     when |-> when]

\* set_endings: the table replaced and any previous result cleared
set_endings(w, defs) ==
    _touch([w EXCEPT !.endings_defs = defs, !.ending_state = NoEnding])

\* the rules left in load order
SortByPriority_unsorted(defs) == defs

\* defs.sort(key=priority, reverse=True): descending priority, load order
\* kept among equal priorities
RECURSIVE SortByPriority(_)
SortByPriority(defs) ==
    IF defs = <<>> THEN <<>>
    ELSE LET d == defs[Len(defs)]
             s == SortByPriority(SubSeq(defs, 1, Len(defs) - 1))
             k == Cardinality({i \in 1..Len(s) : s[i].priority >= d.priority})
         IN  SubSeq(s, 1, k) \o <<d>> \o SubSeq(s, k + 1, Len(s))

\* the verdict frozen for rule d
Verdict(w, d, reasons) ==
    [ok |-> TRUE, ended |-> TRUE, ending_id |-> d.id, label |-> d.label,
     outcome |-> d.outcome, reasons |-> reasons, time_min |-> w.time_min]

\* evaluate_endings that looks at the rules again although a verdict is frozen
evaluate_endings_again(w) ==
    LET defs == SortByPriority(w.endings_defs)
        hits == {i \in 1..Len(defs) : _eval_when(w, defs[i].when).ok}
        first == CHOOSE i \in hits : \A j \in hits : i <= j
        st == Verdict(w, defs[first], _eval_when(w, defs[first].when).reasons)
    IN  IF hits = {}
        THEN [w |-> w, meta |-> w.ending_state, matched_ids |-> <<>>]
        ELSE [w |-> _touch([w EXCEPT !.ending_state = st]), meta |-> st,
              matched_ids |-> <<defs[first].id>>]

\* evaluate_endings: the frozen verdict if there is one, else the verdict
\* of the first rule that holds, which it freezes; matched_ids is in the
\* response only when the rules were looked at
evaluate_endings(w) ==
    LET defs == SortByPriority(w.endings_defs)
        hits == {i \in 1..Len(defs) : _eval_when(w, defs[i].when).ok}
        first == CHOOSE i \in hits : \A j \in hits : i <= j
        st == Verdict(w, defs[first], _eval_when(w, defs[first].when).reasons)
    IN  IF w.ending_state.ended
        THEN [w |-> w, meta |-> w.ending_state, matched_ids |-> NoIds]
        ELSE IF hits = {}
        THEN [w |-> w, meta |-> NoEnding, matched_ids |-> <<>>]
        ELSE [w |-> _touch([w EXCEPT !.ending_state = st]), meta |-> st,
              matched_ids |-> <<defs[first].id>>]

\* story_ended: the frozen verdict, else one evaluation
story_ended(w) ==
    IF w.ending_state.ended
    THEN [w |-> w, meta |-> w.ending_state, matched_ids |-> NoIds]
    ELSE evaluate_endings(w)

\* end_now that freezes its verdict over one already frozen
end_now_over(w, ending_id, note) ==
    LET st == [ok |-> TRUE, ended |-> TRUE, ending_id |-> ending_id,
               label |-> note, outcome |-> NoName,
               reasons |-> IF note # NoName THEN <<note>> ELSE <<>>,
               time_min |-> w.time_min]
    IN  [w |-> _touch([w EXCEPT !.ending_state = st]), meta |-> st]

\* end_now: the frozen verdict if there is one, else a verdict with the
\* given id and note that it freezes (NoName for no id, no note)
end_now(w, ending_id, note) ==
    LET st == [ok |-> TRUE, ended |-> TRUE, ending_id |-> ending_id,
               label |-> note, outcome |-> NoName,
               reasons |-> IF note # NoName THEN <<note>> ELSE <<>>,
               time_min |-> w.time_min]
    IN  IF w.ending_state.ended THEN [w |-> w, meta |-> w.ending_state]
        ELSE [w |-> _touch([w EXCEPT !.ending_state = st]), meta |-> st]

adjust_tension(w, delta) == [w EXCEPT !.tension = Max(0, Min(5, @ + delta))]

\* an effect of a timeline event: damage or heal of a target, or a forced
\* ending
Effect(kind, target, amount, ending_id, note) ==
    [kind |-> kind, target |-> target, amount |-> amount,
     ending_id |-> ending_id, note |-> note]

ApplyEffect(w, eff) ==
    IF eff.kind = "damage" THEN damage(w, eff.target, eff.amount)
    ELSE IF eff.kind = "heal" THEN heal(w, eff.target, eff.amount)
    ELSE IF eff.kind = "end" THEN end_now(w, eff.ending_id, eff.note).w
    ELSE w

RECURSIVE ApplyEffects(_, _)
ApplyEffects(w, effs) ==
    IF effs = <<>> THEN w
    ELSE ApplyEffects(ApplyEffect(w, Head(effs)), Tail(effs))

RECURSIVE FireAll(_, _)
FireAll(w, due) ==
    IF due = <<>> THEN w
    ELSE FireAll(ApplyEffects(w, Head(due).effects), Tail(due))

\* an event fires only once the clock is past its minute
process_events_late(w) ==
    LET due == SelectSeq(w.events, LAMBDA ev : ev.at < w.time_min)
        rest == SelectSeq(w.events, LAMBDA ev : ev.at >= w.time_min)
    IN  FireAll([w EXCEPT !.events = rest], due)

\* process_events: the events due leave the queue and their effects are
\* applied in queue order
process_events(w) ==
    LET due == SelectSeq(w.events, LAMBDA ev : ev.at <= w.time_min)
        rest == SelectSeq(w.events, LAMBDA ev : ev.at > w.time_min)
    IN  FireAll([w EXCEPT !.events = rest], due)

advance_time(w, mins) ==
    process_events(_touch([w EXCEPT !.time_min = @ + mins]))

----------------------------------------------------------------------------
(* The schema gate of externally invoked tools *)

\* a parameter value as the caller sent it: a string, an integer, null, a
\* list of two integers, a list of two elements that are not integers, a
\* list of one element
StrVal(s) == [t |-> "str", s |-> s, n |-> 0, xy |-> <<0, 0>>]
IntVal(n) == [t |-> "int", s |-> "", n |-> n, xy |-> <<0, 0>>]
NullVal == [t |-> "null", s |-> "", n |-> 0, xy |-> <<0, 0>>]
ListVal(x, y) == [t |-> "list", s |-> "", n |-> 0, xy |-> <<x, y>>]
BadList == [t |-> "badlist", s |-> "", n |-> 0, xy |-> <<0, 0>>]
ShortList == [t |-> "shortlist", s |-> "", n |-> 0, xy |-> <<0, 0>>]

ToolSpec(required, actor_keys, numeric_min0, participants_policy, source_param) ==
    [required |-> required, actor_keys |-> actor_keys,
     numeric_min0 |-> numeric_min0,
     participants_policy |-> participants_policy,
     source_param |-> source_param]

TOOL_SPECS ==
    [perform_attack |-> ToolSpec({"attacker", "defender", "weapon"},
                                 {"attacker", "defender"}, {}, "both", NoName),
     advance_position |-> ToolSpec({"name", "target"}, {"name"}, {}, "source", "name"),
     use_entrance |-> ToolSpec({"name"}, {"name"}, {}, "source", "name"),
     adjust_relation |-> ToolSpec({"a", "b", "value"}, {"a", "b"}, {}, "none", NoName),
     transfer_item |-> ToolSpec({"target", "item"}, {"target"}, {}, "none", NoName),
     set_protection |-> ToolSpec({"guardian", "protectee"},
                                 {"guardian", "protectee"}, {}, "both", NoName),
     clear_protection |-> ToolSpec({}, {"guardian", "protectee"}, {}, "none", NoName),
     first_aid |-> ToolSpec({"name", "target"}, {"name", "target"}, {}, "both", NoName),
     cast_arts |-> ToolSpec({"attacker", "art", "target"},
                            {"attacker", "target"}, {}, "both", NoName),
     apply_exposure |-> ToolSpec({"name"}, {"name"}, {"bonus"}, "source", "name"),
     advance_infection_stage |-> ToolSpec({"name"}, {"name"}, {}, "none", NoName),
     get_infection_state |-> ToolSpec({"name"}, {"name"}, {}, "none", NoName)]

\* the decimal texts int() reads and str() writes, for the integers of the
\* model
Digits == <<"0", "1", "2", "3", "4", "5", "6", "7", "8", "9">>

IntText(n) == IF n < 0 THEN "-" \o Digits[1 - n] ELSE Digits[n + 1]

\* _coerce_nonneg_int: the integer read from v when there is one and it is
\* not negative, else None
_coerce_nonneg_int(v) ==
    IF v.t = "int" THEN (IF v.n >= 0 THEN v.n ELSE None)
    ELSE IF v.t = "str" /\ \E n \in -9..9 : IntText(n) = v.s
    THEN LET n == CHOOSE n \in -9..9 : IntText(n) = v.s
         IN  IF n >= 0 THEN n ELSE None
    ELSE None

\* _normalize_params_for: a cast never takes mp_spent from the caller
_normalize_params_for(tool, p) ==
    IF tool = "cast_arts" THEN [k \in (DOMAIN p) \ {"mp_spent"} |-> p[k]] ELSE p

\* the "X,Y" literals of the model
CoordLiterals == [s \in {"1,0", "2,1"} |-> IF s = "1,0" THEN <<1, 0>> ELSE <<2, 1>>]

\* _resolve_named_target_for_move in a world without entrances and
\* objective positions: an "X,Y" literal, else the position of the actor
\* named, unless it is known to be in another scene; NoPos for no result
_resolve_named_target_for_move(w, name, term) ==
    IF term = "" THEN NoPos
    ELSE IF term \in DOMAIN CoordLiterals THEN CoordLiterals[term]
    ELSE IF term \in Actors /\ w.positions[term] # NoPos
    THEN IF name \in Actors /\ w.scene_of[name] # NoName
            /\ w.scene_of[term] # NoName /\ w.scene_of[name] # w.scene_of[term]
         THEN NoPos
         ELSE w.positions[term]
    ELSE NoPos

\* str() of an actor parameter
ActorText(v) == IF v.t = "int" THEN IntText(v.n) ELSE v.s

\* the parameters as the gate hands them on: non-negative integers read,
\* actor names as text
Coerced(tool, p) ==
    LET spec == TOOL_SPECS[tool]
        q == _normalize_params_for(tool, p)
    IN  [k \in DOMAIN q |->
            IF k \in spec.numeric_min0 THEN IntVal(_coerce_nonneg_int(q[k]))
            ELSE IF k \in spec.actor_keys /\ q[k].t # "null" THEN StrVal(ActorText(q[k]))
            ELSE q[k]]

\* the parameters the tool's function receives when the gate lets the call
\* through: the target of a move resolved to a point
Normalized(w, tool, p) ==
    LET q == Coerced(tool, p)
    IN  IF tool = "advance_position" /\ q["target"].t = "str"
        THEN [q EXCEPT !["target"] =
                 LET xy == _resolve_named_target_for_move(w, q["name"].s, @.s)
                 IN  ListVal(xy[1], xy[2])]
        ELSE q

Refusal(err, param) == [err |-> err, param |-> param]

\* the actor parameters the participants policy of the tool refuses in w
NotParticipants(w, tool, q) ==
    LET spec == TOOL_SPECS[tool]
    IN  IF Len(w.participants) = 0 THEN {}
        ELSE IF spec.participants_policy = "source" /\ spec.source_param # NoName
        THEN {k \in {spec.source_param} :
                 /\ k \in DOMAIN q
                 /\ q[k].t = "str" /\ q[k].s # ""
                 /\ ~IsParticipant(w, q[k].s)}
        ELSE IF spec.participants_policy = "both"
        THEN {k \in spec.actor_keys \cap DOMAIN q :
                 q[k].t = "str" /\ ~IsParticipant(w, q[k].s)}
        ELSE {}

\* what the gate finds wrong with the target of a move
BadTarget(w, q) ==
    LET tgt == q["target"]
    IN  IF tgt.t = "list" THEN {}
        ELSE IF tgt.t = "badlist" THEN {Refusal("invalid_type", "target")}
        ELSE IF tgt.t = "str"
        THEN IF _resolve_named_target_for_move(w, q["name"].s, tgt.s) = NoPos
             THEN {Refusal("invalid_value", "target")}
             ELSE {}
        ELSE {Refusal("invalid_type", "target")}

\* a gate without the participants policy
GateRefusals_open(w, tool, p) ==
    IF tool \notin DOMAIN TOOL_SPECS THEN {Refusal("unknown_tool", NoName)}
    ELSE
    LET spec == TOOL_SPECS[tool]
        q0 == _normalize_params_for(tool, p)
        missing == {k \in spec.required :
                       k \notin DOMAIN q0 \/ q0[k] \in {NullVal, StrVal("")}}
        badnum == {k \in spec.numeric_min0 \cap DOMAIN q0 :
                      _coerce_nonneg_int(q0[k]) = None}
        q == Coerced(tool, p)
    IN  IF missing # {} THEN {Refusal("missing_param", k) : k \in missing}
        ELSE IF badnum # {} THEN {Refusal("invalid_type", k) : k \in badnum}
        ELSE IF tool = "advance_position" THEN BadTarget(w, q)
        ELSE {}

\* _validated_call up to the call of the tool's function: the refusals it
\* can answer with (it names the first offending parameter its iteration
\* over a set of names meets), none when the call goes through
GateRefusals(w, tool, p) ==
    IF tool \notin DOMAIN TOOL_SPECS THEN {Refusal("unknown_tool", NoName)}
    ELSE
    LET spec == TOOL_SPECS[tool]
        q0 == _normalize_params_for(tool, p)
        missing == {k \in spec.required :
                       k \notin DOMAIN q0 \/ q0[k] \in {NullVal, StrVal("")}}
        badnum == {k \in spec.numeric_min0 \cap DOMAIN q0 :
                      _coerce_nonneg_int(q0[k]) = None}
        q == Coerced(tool, p)
    IN  IF missing # {} THEN {Refusal("missing_param", k) : k \in missing}
        ELSE IF badnum # {} THEN {Refusal("invalid_type", k) : k \in badnum}
        ELSE IF tool = "advance_position" /\ BadTarget(w, q) # {}
        THEN BadTarget(w, q)
        ELSE {Refusal("not_participant", k) : k \in NotParticipants(w, tool, q)}

\* the parameter names of the function behind each tool
FnParams ==
    [perform_attack |-> {"attacker", "defender", "weapon", "advantage"},
     advance_position |-> {"name", "target", "steps", "target_label", "target_kind"},
     set_protection |-> {"guardian", "protectee"},
     first_aid |-> {"name", "target"},
     cast_arts |-> {"attacker", "art", "target", "center", "mp_spent", "reason"},
     apply_exposure |-> {"name", "level", "source", "dice_expr", "bonus"},
     advance_infection_stage |-> {"name", "choice"}]

Answer(w, ok, err) == [w |-> w, ok |-> ok, err |-> err]

\* the answer of a function that returns its metadata in a record
MetaAnswer(r) == Answer(r.w, r.meta.ok, r.meta.err)

FirstAidAnswer(w2, err) == Answer(w2, err = "", err)

StageAnswer(r) == Answer(r.w, r.ok, IF r.ok THEN "" ELSE "stage_max")

\* fn(**p) for the parameters q the gate let through and the rolls rl; a
\* parameter the function does not have is a TypeError before it runs
CallTool(w, tool, q, rl) ==
    IF ~(DOMAIN q \subseteq FnParams[tool])
    THEN Answer(w, FALSE, "invalid_parameters")
    ELSE IF tool = "perform_attack"
    THEN MetaAnswer(attack_with_weapon(w, q["attacker"].s, q["defender"].s,
                                       q["weapon"].s, rl.ra, rl.rb, rl.total))
    ELSE IF tool = "advance_position"
    THEN move_towards(w, q["name"].s, q["target"].xy, None)
    ELSE IF tool = "set_protection"
    THEN set_guard(w, q["guardian"].s, q["protectee"].s)
    ELSE IF tool = "first_aid"
    THEN FirstAidAnswer(first_aid(w, q["name"].s, q["target"].s, rl.ra),
                        first_aid_err(w, q["name"].s,
                            skill_check_coc(w, q["name"].s, "FirstAid", rl.ra)))
    ELSE IF tool = "cast_arts"
    THEN MetaAnswer(cast_arts(w, q["attacker"].s, q["art"].s, q["target"].s, None, rl))
    ELSE IF tool = "apply_exposure"
    THEN Answer(apply_exposure(w, q["name"].s,
                               IF "bonus" \in DOMAIN q THEN q["bonus"].n ELSE 0,
                               rl.raw, rl.exposure), TRUE, "")
    ELSE StageAnswer(advance_infection_stage(w, q["name"].s,
                        IF "choice" \in DOMAIN q THEN q["choice"].s ELSE "auto"))

\* the entry of validated_tool_dispatch for the tool: a move never takes
\* steps from the caller
DispatchParams(tool, p) ==
    IF tool = "advance_position" THEN [k \in (DOMAIN p) \ {"steps"} |-> p[k]] ELSE p

----------------------------------------------------------------------------
(* The actor-turn loop of run_demo *)

CurName == WORLD.participants[cur]
NextCur == IF cur = Len(WORLD.participants) THEN 1 ELSE cur + 1

\* ticks of its own turn end an actor has seen since it entered dying
Since(w, w2, ticked) ==
    [n \in Actors |->
        IF ~_is_dying(w, n) THEN (IF _is_dying(w2, n) THEN 0 ELSE since[n])
        ELSE IF n = ticked THEN since[n] + 1
        ELSE IF _is_dying(w2, n) THEN since[n]
        ELSE 0]

\* a dead actor's turn is skipped; otherwise the turn resources are reset
TurnStart ==
    /\ phase = "start"
    /\ IF is_dead(WORLD, CurName)
       THEN /\ cur' = NextCur
            /\ UNCHANGED <<WORLD, phase, since>>
            /\ last' = Meta("skip", CurName, NoName, TRUE, "")
       ELSE /\ WORLD' = reset_actor_turn(WORLD, CurName)
            /\ phase' = "acting"
            /\ last' = Meta("reset", CurName, NoName, TRUE, "")
            /\ UNCHANGED <<cur, since>>

\* end of the actor's turn: status timers and the dying countdown tick
TurnEnd ==
    /\ phase = "acting"
    /\ WORLD' = tick_dying_for(WORLD, CurName)
    /\ since' = Since(WORLD, WORLD', CurName)
    /\ cur' = NextCur
    /\ phase' = "start"
    /\ last' = Meta("tick", CurName, NoName, TRUE, "")

----------------------------------------------------------------------------
(* Engine calls made during an actor's turn *)

Damage(n, amt) ==
    /\ phase = "acting"
    /\ WORLD' = damage(WORLD, n, amt)
    /\ since' = Since(WORLD, WORLD', NoName)
    /\ last' = [Meta("damage", NoName, n, TRUE, "") EXCEPT !.dmg = Max(0, amt)]
    /\ UNCHANGED <<cur, phase>>

Heal(n, amt) ==
    /\ phase = "acting"
    /\ WORLD' = heal(WORLD, n, amt)
    /\ since' = Since(WORLD, WORLD', NoName)
    /\ last' = [Meta("heal", NoName, n, TRUE, "") EXCEPT !.healed = Max(0, amt)]
    /\ UNCHANGED <<cur, phase>>

FirstAid(name, target, roll) ==
    /\ phase = "acting"
    /\ WORLD' = first_aid(WORLD, name, target, roll)
    /\ since' = Since(WORLD, WORLD', NoName)
    /\ LET err == first_aid_err(WORLD, name,
                                skill_check_coc(WORLD, name, "FirstAid", roll))
       IN  last' = Meta("first_aid", name, target, err = "", err)
    /\ UNCHANGED <<cur, phase>>

----------------------------------------------------------------------------
(* Specification of the hit-point life cycle: two actors take turns and are *)
(* damaged, healed and given first aid                                      *)

LifeActors == {"A", "B"}

InitLife ==
    /\ WORLD = World(<<"A", "B">>,
                     [n \in Actors |-> <<0, 0>>],
                     [n \in Actors |-> NoName],
                     [n \in Actors |-> <<>>])
    /\ cur = 1
    /\ phase = "start"
    /\ last = Meta("init", NoName, NoName, TRUE, "")
    /\ since = [n \in Actors |-> 0]

NextLife ==
    /\ WORLD.version < MaxVersionLife
    /\ \/ TurnStart
       \/ TurnEnd
       \/ \E n \in LifeActors, amt \in Amounts : Damage(n, amt)
       \/ \E n \in LifeActors, amt \in Amounts : Heal(n, amt)
       \/ \E n \in LifeActors, t \in LifeActors, roll \in Rolls : FirstAid(n, t, roll)

SpecLife == InitLife /\ [][NextLife]_vars

----------------------------------------------------------------------------
(* Combat calls made during an actor's turn *)

Attack(attacker, defender, weapon, ra, rb, total) ==
    /\ phase = "acting"
    /\ LET r == attack_with_weapon(WORLD, attacker, defender, weapon, ra, rb, total)
       IN  /\ WORLD' = r.w
           /\ last' = r.meta
    /\ since' = Since(WORLD, WORLD', NoName)
    /\ UNCHANGED <<cur, phase>>

Move(name, target, steps) ==
    /\ phase = "acting"
    /\ LET r == move_towards(WORLD, name, target, steps)
       IN  /\ WORLD' = r.w
           /\ last' = Meta("move", name, NoName, r.ok, r.err)
    /\ UNCHANGED <<cur, phase, since>>

SetGuard(guardian, protectee) ==
    /\ phase = "acting"
    /\ LET r == set_guard(WORLD, guardian, protectee)
       IN  /\ WORLD' = r.w
           /\ last' = Meta("set_guard", guardian, protectee, r.ok, r.err)
    /\ UNCHANGED <<cur, phase, since>>

ClearGuard(guardian, protectee) ==
    /\ phase = "acting"
    /\ WORLD' = clear_guard(WORLD, guardian, protectee)
    /\ last' = Meta("clear_guard", guardian, protectee, TRUE, "")
    /\ UNCHANGED <<cur, phase, since>>

UseAction(name, kind) ==
    /\ phase = "acting"
    /\ LET r == use_action(WORLD, name, kind)
       IN  /\ WORLD' = r.w
           /\ last' = [Meta("use_action", name, NoName, r.ok, r.err) EXCEPT !.kind = kind]
    /\ UNCHANGED <<cur, phase, since>>

\* the rolls a cast of this art by this caster can draw in world w, for
\* the d100 values and exposure rolls given
CastDraws(w, attacker, art, d100s, exposures) ==
    LET ad == arts_defs[art]
        dd == IF art \in DOMAIN arts_defs /\ "damage" \in DOMAIN ad
              THEN ArtDice(w, attacker, ad.damage) ELSE NoDice
        hd == IF art \in DOMAIN arts_defs /\ "heal" \in DOMAIN ad
              THEN ArtDice(w, attacker, ad.heal) ELSE NoDice
        totals == IF dd = NoDice THEN {0} ELSE DiceTotals(dd)
        heals == IF hd = NoDice THEN {0} ELSE DiceTotals(hd)
        raws == DiceTotals(OverchargeDice(w.characters[attacker].infection.overcharge_step))
    IN  {CastRolls(ra, rb, t, h, raw, e) :
            ra \in d100s, rb \in d100s, t \in totals, h \in heals,
            raw \in raws, e \in exposures}

Cast(attacker, art, target, mp_spent, rl) ==
    /\ phase = "acting"
    /\ LET r == cast_arts(WORLD, attacker, art, target, mp_spent, rl)
       IN  /\ WORLD' = r.w
           /\ last' = r.meta
    /\ since' = Since(WORLD, WORLD', NoName)
    /\ UNCHANGED <<cur, phase>>

AddStatus(name, state, duration_rounds) ==
    /\ phase = "acting"
    /\ WORLD' = add_status(WORLD, name, state, duration_rounds, "control")
    /\ last' = Meta("add_status", NoName, name, TRUE, "")
    /\ UNCHANGED <<cur, phase, since>>

----------------------------------------------------------------------------
(* Specification of the action gate: two armed actors, A an arts caster,   *)
(* are hurt and put under control statuses and try every gated action      *)

MaxVersionGate == 4

GateActors == {"A"}
GateTargets == {"B"}
GateStatuses == {"stunned", "silenced", "restrained"}
GateArts == {"bolt", "mend"}
GateD100 == {12, 60}
GateExposures == {ExposureRolls(60, 60, 1, 60, 1)}

InitGate ==
    /\ WORLD = [World(<<"A", "B">>,
                      [A |-> <<0, 0>>, B |-> <<1, 0>>, C |-> <<2, 0>>, D |-> <<2, 1>>],
                      [n \in Actors |-> "s1"],
                      [n \in Actors |-> [sword |-> 1]])
                 EXCEPT !.characters["A"].mp = 1, !.characters["A"].max_mp = 1]
    /\ cur = 1
    /\ phase = "start"
    /\ last = Meta("init", NoName, NoName, TRUE, "")
    /\ since = [n \in Actors |-> 0]

NextGate ==
    /\ WORLD.version < MaxVersionGate
    /\ \/ TurnStart
       \/ TurnEnd
       \/ \E n \in GateActors : Damage(n, MaxHP)
       \/ \E n \in GateActors, st \in GateStatuses : AddStatus(n, st, 1)
       \/ \E n \in GateActors, c \in {<<0, 0>>, <<1, 1>>} : Move(n, c, None)
       \/ \E a \in GateActors, d \in GateTargets, ra \in GateD100, rb \in GateD100 :
            Attack(a, d, "sword", ra, rb, 1)
       \/ \E a \in GateActors, d \in GateTargets, art \in GateArts :
            \E rl \in CastDraws(WORLD, a, art, GateD100, GateExposures) :
                Cast(a, art, d, None, rl)
       \/ \E g \in GateActors, p \in GateTargets : SetGuard(g, p)
       \/ \E n \in GateActors, t \in GateTargets, roll \in GateD100 : FirstAid(n, t, roll)

SpecGate == InitGate /\ [][NextGate]_vars

----------------------------------------------------------------------------
(* Specification of weapon attacks under protection: four actors on the    *)
(* grid, C and D armed, B the protected actor                              *)

MaxVersionCombat == 6

WeaponIds == {"sword", "bow"}
Attackers == {"A", "C"}
Defenders == {"B", "D"}
AttackRolls == {5, 60}
DefenceRolls == {28}
Guards == {"A", "D"}
Protectees == {"B"}
Movers == {"A"}

\* authored starting positions: protector A and protector D next to the
\* protected B, the armed C three steps from B; D may stand in another scene
InitCombat ==
    /\ \E sd \in {"s1", "s2"} :
         WORLD = World(<<"A", "B", "C", "D">>,
                       [A |-> <<1, 0>>, B |-> <<0, 0>>, C |-> <<2, 1>>, D |-> <<0, 1>>],
                       [n \in Actors |-> IF n = "D" THEN sd ELSE "s1"],
                       [n \in Actors |->
                           IF n = "C" THEN [sword |-> 1, bow |-> 1] ELSE <<>>])
    /\ cur = 1
    /\ phase = "start"
    /\ last = Meta("init", NoName, NoName, TRUE, "")
    /\ since = [n \in Actors |-> 0]

NextCombat ==
    /\ WORLD.version < MaxVersionCombat
    /\ \/ TurnStart
       \/ TurnEnd
       \/ \E a \in Attackers, d \in Defenders, wp \in WeaponIds,
             ra \in AttackRolls, rb \in DefenceRolls :
            \E total \in (IF wp \in DOMAIN weapon_defs
                          THEN DiceTotals(weapon_defs[wp].damage) ELSE {0}) :
                Attack(a, d, wp, ra, rb, total)
       \/ \E n \in Movers, c \in Cells, st \in {None, 1} : Move(n, c, st)
       \/ \E g \in Guards, p \in Protectees : SetGuard(g, p)
       \/ \E g \in Guards \cup {NoName}, p \in Protectees \cup {NoName} : ClearGuard(g, p)
       \/ \E n \in Guards : UseAction(n, "reaction")

SpecCombat == InitCombat /\ [][NextCombat]_vars

----------------------------------------------------------------------------
(* Specification of opposed checks: A and B with authored skill values      *)
(* oppose each other with every pair of rolls, hale or dying                *)

MaxVersionContest == 3

SkillValues == {10, 40, 90}
ContestRolls == {2, 8, 20, 45, 95}
ContestActors == {"A", "B"}

\* a direct call of contest(a, "Fighting_Blade", b, "Dodge")
Contest(a, b, ra, rb) ==
    /\ phase = "acting"
    /\ last' = [Meta("contest", a, b, TRUE, "") EXCEPT
                    !.winner = contest(WORLD, a, "Fighting_Blade", b, "Dodge", ra, rb),
                    !.ra = ra, !.rb = rb]
    /\ UNCHANGED <<WORLD, cur, phase, since>>

\* the check of an attack or cast, with the attacker's value overridden
\* (value # None) or read from the sheet
AttackCheck(a, b, value, ra, rb) ==
    /\ phase = "acting"
    /\ last' = [Meta("attack_check", a, b, TRUE, "") EXCEPT
                    !.hit = _attack_run_check_or_contest(WORLD, a, b,
                                "Fighting_Blade", "Dodge", value, ra, rb),
                    !.reach = value, !.ra = ra, !.rb = rb]
    /\ UNCHANGED <<WORLD, cur, phase, since>>

InitContest ==
    /\ \E va \in SkillValues, vb \in SkillValues :
         WORLD = [World(<<"A", "B">>,
                        [n \in Actors |-> <<0, 0>>],
                        [n \in Actors |-> "s1"],
                        [n \in Actors |-> <<>>])
                  EXCEPT !.characters["A"].skills = [Fighting_Blade |-> va, Dodge |-> va],
                         !.characters["B"].skills = [Fighting_Blade |-> vb, Dodge |-> vb]]
    /\ cur = 1
    /\ phase = "start"
    /\ last = Meta("init", NoName, NoName, TRUE, "")
    /\ since = [n \in Actors |-> 0]

NextContest ==
    /\ WORLD.version < MaxVersionContest
    /\ \/ TurnStart
       \/ \E n \in ContestActors : Damage(n, MaxHP)
       \/ \E a \in ContestActors, ra \in ContestRolls, rb \in ContestRolls :
            \E b \in ContestActors \ {a} : Contest(a, b, ra, rb)
       \/ \E v \in {None, 40}, ra \in ContestRolls, rb \in ContestRolls :
            AttackCheck("A", "B", v, ra, rb)

SpecContest == InitContest /\ [][NextContest]_vars

----------------------------------------------------------------------------
(* Specification of the turn resources: A, B and the armed C take turns; A *)
(* and B spend their resources, A moves, is hurt and put under control     *)
(* statuses and protects B, whom C attacks                                  *)

MaxVersionTurn == 6

TurnActors == {"A", "B"}
ResourceKinds == {"action", "bonus", "reaction"}
TurnStatuses == {"rooted", "silenced"}

InitTurn ==
    /\ WORLD = World(<<"A", "B", "C">>,
                     [A |-> <<1, 0>>, B |-> <<0, 0>>, C |-> <<0, 1>>, D |-> <<2, 1>>],
                     [n \in Actors |-> "s1"],
                     [n \in Actors |-> IF n = "C" THEN [sword |-> 1] ELSE <<>>])
    /\ cur = 1
    /\ phase = "start"
    /\ last = Meta("init", NoName, NoName, TRUE, "")
    /\ since = [n \in Actors |-> 0]

NextTurn ==
    /\ WORLD.version < MaxVersionTurn
    /\ \/ TurnStart
       \/ TurnEnd
       \/ \E n \in TurnActors, k \in ResourceKinds : UseAction(n, k)
       \/ Move("A", <<2, 0>>, None)
       \/ \E st \in TurnStatuses : AddStatus("A", st, 1)
       \/ Damage("A", MaxHP)
       \/ SetGuard("A", "B")
       \/ Attack("C", "B", "sword", 5, 60, 1)

SpecTurn == InitTurn /\ [][NextTurn]_vars

----------------------------------------------------------------------------
(* Specification of casting: the caster A, with little or no MP and an     *)
(* authored infection stress, casts every art at B and advances in stage    *)

MaxVersionCast == 5

CastArts == {"bolt", "mend", "bind", "surge", "drain"}
CastD100 == {12, 60}
CastExposures == {ExposureRolls(60, 60, 1, 60, 1)}
StartMP == {0, 1}
StartStress == {0, 79, 99}

\* the tool call advance_infection_stage(name, choice)
AdvanceStage(name, choice) ==
    /\ phase = "acting"
    /\ LET r == advance_infection_stage(WORLD, name, choice)
       IN  /\ WORLD' = r.w
           /\ last' = [Meta("advance_infection_stage", name, NoName, r.ok,
                             IF r.ok THEN "" ELSE "stage_max")
                        EXCEPT !.kind = choice]
    /\ since' = Since(WORLD, WORLD', NoName)
    /\ UNCHANGED <<cur, phase>>

InitCast ==
    /\ \E mp \in StartMP, stress \in StartStress :
         WORLD = [World(<<"A", "B">>,
                        [A |-> <<0, 0>>, B |-> <<1, 0>>, C |-> <<2, 0>>, D |-> <<2, 1>>],
                        [n \in Actors |-> "s1"],
                        [n \in Actors |-> <<>>])
                  EXCEPT !.characters["A"].mp = mp,
                         !.characters["A"].max_mp = 2,
                         !.characters["A"].coc = TRUE,
                         !.characters["A"].chars = [CON |-> 10, SIZ |-> 10, POW |-> 10],
                         !.characters["A"].infection.stress = stress]
    /\ cur = 1
    /\ phase = "start"
    /\ last = Meta("init", NoName, NoName, TRUE, "")
    /\ since = [n \in Actors |-> 0]

NextCast ==
    /\ WORLD.version < MaxVersionCast
    /\ \/ TurnStart
       \/ TurnEnd
       \/ \E art \in CastArts, mp_spent \in {None, 2} :
            \E rl \in CastDraws(WORLD, "A", art, CastD100, CastExposures) :
                Cast("A", art, "B", mp_spent, rl)
       \/ \E choice \in {"auto", "affinity"} : AdvanceStage("A", choice)

SpecCast == InitCast /\ [][NextCast]_vars

----------------------------------------------------------------------------
(* Attacks on an armoured defender: C strikes B with a blade or a wand,   *)
(* B wears armour and a barrier, A may stand guard for B                  *)

MaxVersionArmour == 5

Armours == {0, 1, 3}
Barriers == {0, 2}
ArmourWeapons == {"sword", "wand"}

\* an attack whose response keeps the damage total rolled
AttackRolled(attacker, defender, weapon, ra, rb, total) ==
    /\ phase = "acting"
    /\ \E r \in {attack_with_weapon(WORLD, attacker, defender, weapon, ra, rb, total)} :
          /\ WORLD' = r.w
          /\ last' = [r.meta EXCEPT !.rolled = total]
    /\ since' = Since(WORLD, WORLD', NoName)
    /\ UNCHANGED <<cur, phase>>

InitArmour ==
    /\ \E armour \in Armours, barrier \in Barriers :
         WORLD = [World(<<"A", "B", "C">>,
                        [A |-> <<0, 1>>, B |-> <<0, 0>>, C |-> <<1, 0>>, D |-> <<2, 1>>],
                        [n \in Actors |-> "s1"],
                        [n \in Actors |->
                            IF n = "C" THEN [sword |-> 1, wand |-> 1] ELSE <<>>])
                  EXCEPT !.characters["B"].physical_armor = armour,
                         !.characters["B"].arts_barrier = barrier,
                         !.characters["A"].arts_barrier = 1]
    /\ cur = 1
    /\ phase = "start"
    /\ last = Meta("init", NoName, NoName, TRUE, "")
    /\ since = [n \in Actors |-> 0]

NextArmour ==
    /\ WORLD.version < MaxVersionArmour
    /\ \/ TurnStart
       \/ TurnEnd
       \/ \E wp \in ArmourWeapons, ra \in {5, 60} :
            \E total \in DiceTotals(weapon_defs[wp].damage) :
                AttackRolled("C", "B", wp, ra, 28, total)
       \/ SetGuard("A", "B")

SpecArmour == InitArmour /\ [][NextArmour]_vars

----------------------------------------------------------------------------
(* First aid on a target with more than two hit points: A treats B, who   *)
(* is damaged and healed in between                                       *)

MaxVersionAid == 7

AidHP == MaxHP + 1

AidRolls == {12, 60}

InitAid ==
    /\ WORLD = [World(<<"A", "B">>,
                      [n \in Actors |-> <<0, 0>>],
                      [n \in Actors |-> NoName],
                      [n \in Actors |-> <<>>])
                 EXCEPT !.characters["B"] = Sheet(AidHP, AidHP)]
    /\ cur = 1
    /\ phase = "start"
    /\ last = Meta("init", NoName, NoName, TRUE, "")
    /\ since = [n \in Actors |-> 0]

NextAid ==
    /\ WORLD.version < MaxVersionAid
    /\ \/ TurnStart
       \/ TurnEnd
       \/ \E amt \in Amounts : Damage("B", amt)
       \/ Heal("B", 1)
       \/ \E roll \in AidRolls : FirstAid("A", "B", roll)

SpecAid == InitAid /\ [][NextAid]_vars

----------------------------------------------------------------------------
(* Tool calls through the schema gate: two participants A and B, a       *)
(* bystander D, and callers that send well-formed and malformed calls    *)

MaxVersionSchema == 3

ToolRolls == {CastRolls(12, 60, 1, 0, 1, ExposureRolls(60, 60, 1, 60, 1))}

Call(tool, p) == [tool |-> tool, p |-> p]

AttackCalls ==
    {Call("perform_attack",
          ("attacker" :> a) @@ ("defender" :> d) @@ ("weapon" :> StrVal("sword"))) :
        a \in {StrVal("A"), StrVal("D"), NullVal},
        d \in {StrVal("B"), StrVal("D"), StrVal("")}}
    \cup {Call("perform_attack", ("attacker" :> StrVal("A")) @@ ("defender" :> StrVal("B"))),
          Call("perform_attack",
               ("attacker" :> StrVal("A")) @@ ("defender" :> StrVal("B"))
               @@ ("weapon" :> StrVal("sword")) @@ ("bogus" :> IntVal(1)))}

MoveCalls ==
    {Call("advance_position", ("name" :> n) @@ ("target" :> t)) :
        n \in {StrVal("A"), StrVal("D"), IntVal(7)},
        t \in {ListVal(1, 1), BadList, ShortList, IntVal(3),
               StrVal("2,1"), StrVal("B"), StrVal("nowhere")}}
    \cup {Call("advance_position",
               ("name" :> StrVal("A")) @@ ("target" :> ListVal(0, 1))
               @@ ("steps" :> IntVal(9)))}

GuardCalls ==
    {Call("set_protection", ("guardian" :> g) @@ ("protectee" :> p)) :
        g \in {StrVal("A"), StrVal("D")}, p \in {StrVal("B"), StrVal("D")}}
    \cup {Call("set_protection", ("guardian" :> StrVal("A")))}

FirstAidCalls ==
    {Call("first_aid", ("name" :> n) @@ ("target" :> t)) :
        n \in {StrVal("A"), StrVal("D")}, t \in {StrVal("B"), NullVal}}

CastCalls ==
    {Call("cast_arts",
          ("attacker" :> a) @@ ("art" :> StrVal("bolt")) @@ ("target" :> StrVal("B"))
          @@ ("mp_spent" :> IntVal(2))) :
        a \in {StrVal("A"), StrVal("D")}}
    \cup {Call("cast_arts", ("attacker" :> StrVal("A")) @@ ("target" :> StrVal("B")))}

ExposureCalls ==
    {Call("apply_exposure", ("name" :> n) @@ ("bonus" :> b)) :
        n \in {StrVal("A"), StrVal("D"), StrVal("")},
        b \in {IntVal(2), IntVal(-1), StrVal("2"), StrVal("x"), NullVal}}
    \cup {Call("apply_exposure", ("name" :> StrVal("A")))}

StageCalls ==
    {Call("advance_infection_stage", ("name" :> n)) :
        n \in {StrVal("A"), StrVal("D"), NullVal}}

SchemaCalls ==
    AttackCalls \cup MoveCalls \cup GuardCalls \cup FirstAidCalls \cup CastCalls
    \cup ExposureCalls \cup StageCalls
    \cup {Call("teleport", ("name" :> StrVal("A")))}

\* a call refused by the gate: the response names the error and the
\* parameter, and the tool's function is not called
Refuse(c) ==
    /\ phase = "acting"
    /\ \E f \in GateRefusals(WORLD, c.tool, DispatchParams(c.tool, c.p)) :
          last' = [Meta(c.tool, NoName, NoName, FALSE, f.err)
                    EXCEPT !.param = f.param, !.args = c.p]
    /\ UNCHANGED <<WORLD, cur, phase, since>>

\* a call the gate lets through to the tool's function
Dispatch(c, rl) ==
    /\ phase = "acting"
    /\ GateRefusals(WORLD, c.tool, DispatchParams(c.tool, c.p)) = {}
    /\ \E q \in {Normalized(WORLD, c.tool, DispatchParams(c.tool, c.p))} :
         \E r \in {CallTool(WORLD, c.tool, q, rl)} :
            /\ WORLD' = r.w
            /\ last' = [Meta(c.tool, NoName, NoName, r.ok, r.err) EXCEPT !.args = c.p]
    /\ since' = Since(WORLD, WORLD', NoName)
    /\ UNCHANGED <<cur, phase>>

InitSchema ==
    /\ WORLD = [World(<<"A", "B">>,
                      [A |-> <<0, 0>>, B |-> <<1, 0>>, C |-> <<2, 0>>, D |-> <<0, 1>>],
                      [n \in Actors |-> "s1"],
                      [n \in Actors |-> [sword |-> 1]])
                 EXCEPT !.characters["A"].mp = 1, !.characters["A"].max_mp = 1,
                        !.characters["B"].hp = 1, !.characters["B"].injury_id = 1]
    /\ cur = 1
    /\ phase = "start"
    /\ last = Meta("init", NoName, NoName, TRUE, "")
    /\ since = [n \in Actors |-> 0]

NextSchema ==
    /\ WORLD.version < MaxVersionSchema
    /\ \/ TurnStart
       \/ TurnEnd
       \/ \E c \in SchemaCalls : Refuse(c)
       \/ \E c \in SchemaCalls, rl \in ToolRolls : Dispatch(c, rl)

SpecSchema == InitSchema /\ [][NextSchema]_vars

----------------------------------------------------------------------------
(* Endings: evaluation, the manual override, the clock *)

MaxVersionEndings == 5
MaxTime == 3

\* two authored endings tables
TableA ==
    <<Ending("late", "Late", "neutral", 0, Leaf("time_at_least", 1)),
      Ending("wipe", "Wipe", "failure", 5,
             AllOf(<<ActorsLeaf("actors_dead", <<"B">>, "all"),
                     NotOf(Leaf("tension_at_least", 3))>>)),
      Ending("tense", "Tense", "success", 5,
             AnyOf(<<Leaf("tension_at_least", 2), Leaf("time_at_least", 2)>>))>>

TableB ==
    <<Ending("early", "Early", "neutral", 1, Leaf("time_before", 1)),
      Ending("calm", "Calm", "success", 1, Leaf("tension_at_most", 0)),
      Ending("stand", "Stand", "success", 3,
             AllOf(<<ActorsLeaf("actors_alive", <<"A", "B">>, "any"),
                     Leaf("time_at_least", 3)>>))>>

EndingTables == {TableA, TableB}

\* a timeline with one event that forces an ending
Timeline ==
    <<[name |-> "collapse", at |-> 2,
       effects |-> <<Effect("damage", "B", 1, NoName, NoName),
                     Effect("end", NoName, 0, "forced", "collapse")>>]>>

\* evaluate_endings() or story_ended()
Evaluate(op) ==
    /\ phase = "acting"
    /\ LET r == IF op = "story_ended" THEN story_ended(WORLD)
                ELSE evaluate_endings(WORLD)
       IN  /\ WORLD' = r.w
           /\ last' = [Meta(op, NoName, NoName, TRUE, "")
                        EXCEPT !.verdict = r.meta,
                               !.matched_ids = r.matched_ids]
    /\ UNCHANGED <<cur, phase, since>>

EndNow(ending_id, note) ==
    /\ phase = "acting"
    /\ LET r == end_now(WORLD, ending_id, note)
       IN  /\ WORLD' = r.w
           /\ last' = [Meta("end_now", NoName, NoName, TRUE, "")
                        EXCEPT !.verdict = r.meta, !.ending_id = ending_id,
                               !.note = note]
    /\ UNCHANGED <<cur, phase, since>>

SetEndings(defs) ==
    /\ phase = "acting"
    /\ WORLD' = set_endings(WORLD, defs)
    /\ last' = Meta("set_endings", NoName, NoName, TRUE, "")
    /\ UNCHANGED <<cur, phase, since>>

AdvanceTime(mins) ==
    /\ phase = "acting"
    /\ WORLD.time_min + mins <= MaxTime
    /\ WORLD' = advance_time(WORLD, mins)
    /\ since' = Since(WORLD, WORLD', NoName)
    /\ last' = Meta("advance_time", NoName, NoName, TRUE, "")
    /\ UNCHANGED <<cur, phase>>

AdjustTension(delta) ==
    /\ phase = "acting"
    /\ WORLD' = adjust_tension(WORLD, delta)
    /\ last' = Meta("adjust_tension", NoName, NoName, TRUE, "")
    /\ UNCHANGED <<cur, phase, since>>

InitEndings ==
    /\ \E defs \in EndingTables, events \in {<<>>, Timeline} :
         WORLD = [World(<<"A", "B">>,
                        [A |-> <<0, 0>>, B |-> <<1, 0>>, C |-> <<2, 0>>, D |-> <<2, 1>>],
                        [n \in Actors |-> "s1"],
                        [n \in Actors |-> <<>>])
                  EXCEPT !.endings_defs = defs, !.events = events]
    /\ cur = 1
    /\ phase = "start"
    /\ last = Meta("init", NoName, NoName, TRUE, "")
    /\ since = [n \in Actors |-> 0]

NextEndings ==
    /\ WORLD.version < MaxVersionEndings
    /\ \/ TurnStart
       \/ TurnEnd
       \/ Damage("B", MaxHP)
       \/ \E op \in {"evaluate_endings", "story_ended"} : Evaluate(op)
       \/ \E ending_id \in {NoName, "manual"}, note \in {NoName, "gm"} :
            EndNow(ending_id, note)
       \/ \E defs \in EndingTables : SetEndings(defs)
       \/ AdvanceTime(1)
       \/ \E delta \in {-1, 1} : AdjustTension(delta)

SpecEndings == InitEndings /\ [][NextEndings]_vars

----------------------------------------------------------------------------
(* Specification of the status timers: A and the dying B take turns and    *)
(* are put under timed and indefinite control statuses while A tries to    *)
(* move; since[n][k] records the duration status k was last applied to n   *)
(* with and the end-of-turn ticks n has had since                          *)

MaxVersionStatus == 9
MaxDuration == 2

StatusBearers == {"A", "B"}
TimedStatuses == {"rooted", "stunned"}
Durations == (1 .. MaxDuration) \cup {None}

ApplyStatus(name, state, duration_rounds) ==
    /\ phase = "acting"
    /\ WORLD' = add_status(WORLD, name, state, duration_rounds, "control")
    /\ since' = [since EXCEPT ![name] =
                    (state :> [duration |-> duration_rounds, ticks |-> 0]) @@ @]
    /\ last' = Meta("add_status", NoName, name, TRUE, "")
    /\ UNCHANGED <<cur, phase>>

\* end of the actor's turn, counted for every status the actor was given
TurnEndTicked ==
    /\ phase = "acting"
    /\ WORLD' = tick_dying_for(WORLD, CurName)
    /\ since' = [since EXCEPT ![CurName] =
                    [k \in DOMAIN @ |-> [@[k] EXCEPT !.ticks = @ + 1]]]
    /\ cur' = NextCur
    /\ phase' = "start"
    /\ last' = Meta("tick", CurName, NoName, TRUE, "")

InitStatus ==
    /\ WORLD = damage(World(<<"A", "B">>,
                            [A |-> <<1, 0>>, B |-> <<0, 0>>, C |-> <<0, 1>>, D |-> <<2, 1>>],
                            [n \in Actors |-> "s1"],
                            [n \in Actors |-> <<>>]),
                      "B", MaxHP)
    /\ cur = 1
    /\ phase = "start"
    /\ last = Meta("init", NoName, NoName, TRUE, "")
    /\ since = [n \in Actors |-> <<>>]

NextStatus ==
    /\ WORLD.version < MaxVersionStatus
    /\ \/ TurnStart
       \/ TurnEndTicked
       \/ \E n \in StatusBearers, k \in TimedStatuses, d \in Durations :
             ApplyStatus(n, k, d)
       \/ Move("A", <<2, 0>>, None)

SpecStatus == InitStatus /\ [][NextStatus]_vars

----------------------------------------------------------------------------
(* Specification of the exposure track: A, loaded with an authored stage   *)
(* and stress, is exposed at every level with every outcome of the resist  *)
(* check and is advanced in stage by the tool                              *)

MaxVersionExposure == 6

ExposureLevels == {"light", "disaster"}
\* resist d100: extreme success, failure, fumble
ResistRolls == {1, 60, 99}
StartStage == {0, 2}
StartStressOf == {0, 79, 99}
StageChoices == {"auto", "resist", "affinity"}

\* lowest and highest total of a dice expression
Extremes(d) == {Max(1, d.n) + d.k, Max(1, d.n) * d.m + d.k}

\* the tool call apply_exposure(name, level)
ApplyExposure(name, level, raw, r) ==
    /\ phase = "acting"
    /\ WORLD' = apply_exposure(WORLD, name, 0, raw, r)
    /\ last' = [Meta("apply_exposure", name, NoName, TRUE, "") EXCEPT !.kind = level]
    /\ since' = Since(WORLD, WORLD', NoName)
    /\ UNCHANGED <<cur, phase>>

InitExposure ==
    /\ \E stage \in StartStage, stress \in StartStressOf :
         WORLD = [World(<<"A", "B">>,
                        [A |-> <<0, 0>>, B |-> <<1, 0>>, C |-> <<2, 0>>, D |-> <<2, 1>>],
                        [n \in Actors |-> "s1"],
                        [n \in Actors |-> <<>>])
                  EXCEPT !.characters["A"].coc = TRUE,
                         !.characters["A"].chars = [CON |-> 10, SIZ |-> 10, POW |-> 10],
                         !.characters["A"].infection.stage = stage,
                         !.characters["A"].infection.stress = stress]
    /\ cur = 1
    /\ phase = "start"
    /\ last = Meta("init", NoName, NoName, TRUE, "")
    /\ since = [n \in Actors |-> 0]

NextExposure ==
    /\ WORLD.version < MaxVersionExposure
    /\ \/ TurnStart
       \/ TurnEnd
       \/ \E level \in ExposureLevels, roll \in ResistRolls :
            \E raw \in Extremes(ExposureDice(level, NoDice)) :
                ApplyExposure("A", level, raw, ExposureRolls(roll, 60, 1, 60, 1))
       \/ \E choice \in StageChoices : AdvanceStage("A", choice)

SpecExposure == InitExposure /\ [][NextExposure]_vars

----------------------------------------------------------------------------
(* Specification of the sessions: two pages, each with its own session     *)
(* state, start, play and stop games; here cur[s] and phase[s] are the     *)
(* turn position of session s ("idle" while no game of s runs), and WORLD  *)
(* is the one module-level world of world.core that every engine function *)
(* reads and writes                                                         *)

MaxVersionSessions == 4

Sessions == {"p1", "p2"}
Stories == {"s1", "s2"}

\* select_world: the module-level world is replaced by a fresh one loaded
\* from the story's configuration
select_world(story) ==
    World(<<"A", "B">>,
          IF story = "s1"
          THEN [A |-> <<0, 0>>, B |-> <<1, 0>>, C |-> <<2, 0>>, D |-> <<2, 1>>]
          ELSE [A |-> <<0, 1>>, B |-> <<2, 1>>, C |-> <<2, 0>>, D |-> <<1, 0>>],
          [n \in Actors |-> story],
          [n \in Actors |-> <<>>])

\* the world the engine calls of session s act on: its _WorldPort binds the
\* functions of world.core, which all work on the module-level WORLD
WorldOf(s) == WORLD

\* the response of a step taken for session s (its events carry the id of
\* the session as correlation id)
SessionMeta(s, op, actor, ok, err) ==
    [Meta(op, actor, NoName, ok, err) EXCEPT !.note = s]

SessionActor(s) == WORLD.participants[cur[s]]

\* POST /api/start for a session that is not running: the world is reset
\* and the runner loads the selected story into it
StartGame(s, story) ==
    /\ phase[s] = "idle"
    /\ WORLD' = select_world(story)
    /\ phase' = [phase EXCEPT ![s] = "start"]
    /\ cur' = [cur EXCEPT ![s] = 1]
    /\ last' = SessionMeta(s, "start", NoName, TRUE, "")
    /\ UNCHANGED since

\* POST /api/select_story or GET /api/preview_state of a session that is
\* not running
SelectStory(s, story) ==
    /\ phase[s] = "idle"
    /\ WORLD' = select_world(story)
    /\ last' = SessionMeta(s, "select_story", NoName, TRUE, "")
    /\ UNCHANGED <<cur, phase, since>>

\* the running game of the session is cancelled
StopGame(s) ==
    /\ phase[s] # "idle"
    /\ phase' = [phase EXCEPT ![s] = "idle"]
    /\ last' = SessionMeta(s, "stop", NoName, TRUE, "")
    /\ UNCHANGED <<WORLD, cur, since>>

SessionTurnStart(s) ==
    /\ phase[s] = "start"
    /\ WORLD.version < MaxVersionSessions
    /\ WORLD' = reset_actor_turn(WORLD, SessionActor(s))
    /\ phase' = [phase EXCEPT ![s] = "acting"]
    /\ last' = SessionMeta(s, "reset", SessionActor(s), TRUE, "")
    /\ UNCHANGED <<cur, since>>

\* the actor of the session's turn moves towards a corner of the grid
SessionMove(s, target) ==
    /\ phase[s] = "acting"
    /\ WORLD.version < MaxVersionSessions
    /\ \E r \in {move_towards(WORLD, SessionActor(s), target, None)} :
          /\ WORLD' = r.w
          /\ last' = SessionMeta(s, "move", SessionActor(s), r.ok, r.err)
    /\ UNCHANGED <<cur, phase, since>>

SessionTurnEnd(s) ==
    /\ phase[s] = "acting"
    /\ WORLD' = tick_dying_for(WORLD, SessionActor(s))
    /\ cur' = [cur EXCEPT ![s] = IF @ = Len(WORLD.participants) THEN 1 ELSE @ + 1]
    /\ phase' = [phase EXCEPT ![s] = "start"]
    /\ last' = SessionMeta(s, "tick", SessionActor(s), TRUE, "")
    /\ UNCHANGED since

\* the server before any request: the module-level world is empty
InitSessions ==
    /\ WORLD = World(<<>>, [n \in Actors |-> NoPos], [n \in Actors |-> NoName],
                     [n \in Actors |-> <<>>])
    /\ cur = [s \in Sessions |-> 1]
    /\ phase = [s \in Sessions |-> "idle"]
    /\ last = Meta("init", NoName, NoName, TRUE, "")
    /\ since = [n \in Actors |-> 0]

NextSessions ==
    \E s \in Sessions :
        \/ \E story \in Stories : StartGame(s, story)
        \/ \E story \in Stories : SelectStory(s, story)
        \/ StopGame(s)
        \/ SessionTurnStart(s)
        \/ \E target \in {<<0, 0>>, <<MaxX, MaxY>>} : SessionMove(s, target)
        \/ SessionTurnEnd(s)

SpecSessions == InitSessions /\ [][NextSessions]_vars

----------------------------------------------------------------------------
(* Specification of the soft pause: the run of A and B takes its turns    *)
(* while the page asks for pauses and resumes; here since holds the        *)
(* PauseGate of the run, and phase is where the run stands: "start" and    *)
(* "acting" as before, "notify" while the paused message is sent and       *)
(* "waiting" while the run awaits the resume event                         *)

MaxVersionPause == 5

\* PauseGate.__init__: nothing requested, not paused, the resume event set
PauseGate == [requested |-> FALSE, paused |-> FALSE, resume_ev |-> TRUE]

\* a pause that takes hold the moment it is asked for
request_at_once(g) == [g EXCEPT !.requested = TRUE, !.paused = TRUE]

request(g) == [g EXCEPT !.requested = TRUE]

\* the gate after wait_if_requested has run up to its first await
wait_if_requested(g) ==
    IF ~g.requested THEN g
    ELSE IF ~g.paused THEN [g EXCEPT !.paused = TRUE, !.resume_ev = FALSE]
    ELSE g

\* resume() that forgets to set the resume event
resume_unset(g) == [g EXCEPT !.requested = FALSE, !.paused = FALSE]

resume(g) == [g EXCEPT !.requested = FALSE, !.paused = FALSE, !.resume_ev = TRUE]

\* POST /api/stop while the game runs
RequestPause ==
    /\ since' = request(since)
    /\ last' = Meta("request", NoName, NoName, TRUE, "")
    /\ UNCHANGED <<WORLD, cur, phase>>

\* POST /api/start while a pause is requested or in effect
Resume ==
    /\ since.requested \/ since.paused
    /\ since' = resume(since)
    /\ last' = Meta("resume", NoName, NoName, TRUE, "")
    /\ UNCHANGED <<WORLD, cur, phase>>

\* end of the actor's turn: the timers tick, then the run reaches the gate
\* and goes on to the next actor unless a pause was requested
TurnEndAtGate ==
    /\ phase = "acting"
    /\ WORLD' = tick_dying_for(WORLD, CurName)
    /\ cur' = NextCur
    /\ since' = wait_if_requested(since)
    /\ phase' = IF ~since.requested THEN "start"
                ELSE IF ~since.paused THEN "notify" ELSE "waiting"
    /\ last' = Meta("tick", CurName, NoName, TRUE, "")

\* the paused message has been sent; the run awaits the resume event
Notified ==
    /\ phase = "notify"
    /\ phase' = "waiting"
    /\ last' = Meta("paused", NoName, NoName, TRUE, "")
    /\ UNCHANGED <<WORLD, cur, since>>

\* the resume event is set: the run goes on with the next actor
Wake ==
    /\ phase = "waiting"
    /\ since.resume_ev
    /\ phase' = "start"
    /\ last' = Meta("resumed", NoName, NoName, TRUE, "")
    /\ UNCHANGED <<WORLD, cur, since>>

InitPause ==
    /\ WORLD = World(<<"A", "B">>,
                     [A |-> <<0, 0>>, B |-> <<1, 0>>, C |-> <<2, 0>>, D |-> <<2, 1>>],
                     [n \in Actors |-> "s1"],
                     [n \in Actors |-> <<>>])
    /\ cur = 1
    /\ phase = "start"
    /\ last = Meta("init", NoName, NoName, TRUE, "")
    /\ since = PauseGate

NextPause ==
    /\ WORLD.version < MaxVersionPause
    /\ \/ TurnStart
       \/ TurnEndAtGate
       \/ \E n \in {"A", "B"} : Move(n, <<MaxX, MaxY>>, 1)
       \/ \E n \in {"A", "B"} : UseAction(n, "action")
       \/ RequestPause
       \/ Resume
       \/ Notified
       \/ Wake

SpecPause == InitPause /\ [][NextPause]_vars

----------------------------------------------------------------------------
(* Specification of the movement budget: A and B take turns and move to    *)
(* the corners of the grid by every number of steps, asked for or left to  *)
(* the budget, and spend movement without moving; since[n] counts the      *)
(* steps n has moved since its turn resources were last reset              *)

MaxVersionMove == 6

BudgetMovers == {"A", "B"}
BudgetCorners == {<<0, 0>>, <<MaxX, 0>>, <<MaxX, MaxY>>}
\* steps asked for: the rest of the budget, none, fewer and more than the
\* speed, and a negative number
StepsAsked == {None, 0, 1, MoveSpeed + 1, -2}

\* consume_movement: movement spent without a move; asking for more than
\* is left empties the budget
consume_movement(w, nm, distance_steps) ==
    LET left == w.turn_state[nm].move_left
        steps == Max(0, distance_steps)
    IN  IF steps <= 0 THEN [w |-> w, ok |-> TRUE, err |-> ""]
        ELSE IF steps > left
        THEN [w |-> [w EXCEPT !.turn_state[nm].move_left = 0],
              ok |-> FALSE, err |-> "insufficient_movement"]
        ELSE [w |-> [w EXCEPT !.turn_state[nm].move_left = left - steps],
              ok |-> TRUE, err |-> ""]

\* the turn start, the steps moved counted afresh from a reset
TurnStartCounted ==
    /\ phase = "start"
    /\ IF is_dead(WORLD, CurName)
       THEN /\ cur' = NextCur
            /\ UNCHANGED <<WORLD, phase, since>>
            /\ last' = Meta("skip", CurName, NoName, TRUE, "")
       ELSE /\ WORLD' = reset_actor_turn(WORLD, CurName)
            /\ since' = [since EXCEPT ![CurName] = 0]
            /\ phase' = "acting"
            /\ last' = Meta("reset", CurName, NoName, TRUE, "")
            /\ UNCHANGED cur

\* the tool call move_towards, the steps it reports counted for the mover
MoveCounted(name, target, steps) ==
    /\ phase = "acting"
    /\ \E r \in {move_towards(WORLD, name, target, steps)} :
          /\ WORLD' = r.w
          /\ since' = [since EXCEPT ![name] = @ + r.moved]
          /\ last' = Meta("move", name, NoName, r.ok, r.err)
    /\ UNCHANGED <<cur, phase>>

ConsumeMovement(name, distance_steps) ==
    /\ phase = "acting"
    /\ \E r \in {consume_movement(WORLD, name, distance_steps)} :
          /\ WORLD' = r.w
          /\ last' = Meta("consume_movement", name, NoName, r.ok, r.err)
    /\ UNCHANGED <<cur, phase, since>>

InitMove ==
    /\ WORLD = World(<<"A", "B">>,
                     [A |-> <<0, 0>>, B |-> <<MaxX, MaxY>>, C |-> <<0, 1>>, D |-> <<1, 1>>],
                     [n \in Actors |-> "s1"],
                     [n \in Actors |-> <<>>])
    /\ cur = 1
    /\ phase = "start"
    /\ last = Meta("init", NoName, NoName, TRUE, "")
    /\ since = [n \in Actors |-> 0]

NextMove ==
    /\ WORLD.version < MaxVersionMove
    /\ \/ TurnStartCounted
       \/ TurnEnd
       \/ \E n \in BudgetMovers, target \in BudgetCorners, steps \in StepsAsked :
             MoveCounted(n, target, steps)
       \/ \E n \in BudgetMovers, steps \in {1, MoveSpeed + 1} : ConsumeMovement(n, steps)

SpecMove == InitMove /\ [][NextMove]_vars

----------------------------------------------------------------------------
(* Specification of the scene graph: three actors in two scenes joined by  *)
(* two entrances move, are hurt and rooted, and use the entrances          *)

MaxVersionScenes == 7

SceneActors == {"A", "B", "C"}
EntranceTerms == {"door", "back", "nowhere"}

\* WORLD.entrances as loaded by set_entrances: the door of s1 leads to s2
\* and the way back arrives on the tile of the door
entrances ==
    [door |-> [from_scene |-> "s1", to_scene |-> "s2",
               at |-> <<MaxX, 0>>, spawn |-> <<0, 0>>],
     back |-> [from_scene |-> "s2", to_scene |-> "s1",
               at |-> <<0, 0>>, spawn |-> <<MaxX, 0>>]]

_actor_scene(w, name) == w.scene_of[name]

\* use_entrance with the entrance named by its id; status is "approaching",
\* "arrived" or "" for a refusal. set_position, set_scene and the closing
\* _touch each raise the version; the scenes carry no time of their own
use_entrance(w, name, entrance) ==
    LET cur_scene == _actor_scene(w, name)
    IN  IF entrance \notin DOMAIN entrances
        THEN [w |-> w, ok |-> FALSE, err |-> "entrance_not_found", status |-> ""]
        ELSE LET ent == entrances[entrance]
                 pos == IF w.positions[name] = NoPos THEN <<0, 0>> ELSE w.positions[name]
                 w0 == [w EXCEPT !.positions[name] = pos]
                 w1 == IF pos # ent.at THEN move_towards(w0, name, ent.at, None).w ELSE w0
             IN  IF cur_scene # NoName /\ ent.from_scene # cur_scene
                 THEN [w |-> w, ok |-> FALSE, err |-> "wrong_scene", status |-> ""]
                 ELSE IF w1.positions[name] # ent.at
                 THEN [w |-> w1, ok |-> TRUE, err |-> "", status |-> "approaching"]
                 ELSE [w |-> _touch(_touch(_touch(
                                [w1 EXCEPT !.scene_of[name] = ent.to_scene,
                                           !.positions[name] = ent.spawn]))),
                       ok |-> TRUE, err |-> "", status |-> "arrived"]

\* the actors of the scene of the viewer
SceneKeep(w, name) == {nm \in Actors : w.scene_of[nm] = w.scene_of[name]}

\* visible_snapshot_for with filter_to_scene left at True: the parts of the
\* view that hold data of actors
visible_snapshot_for(w, name) ==
    IF w.scene_of[name] = NoName
    THEN [positions |-> <<>>, characters |-> <<>>, participants |-> <<>>,
          scene_of |-> w.scene_of, inventory |-> <<>>]
    ELSE LET keep == SceneKeep(w, name)
         IN  [positions |-> [k \in keep |-> w.positions[k]],
              characters |-> [k \in keep |-> w.characters[k]],
              participants |-> SelectSeq(w.participants, LAMBDA nm : nm \in keep),
              scene_of |-> w.scene_of,
              inventory |-> w.inventory]

UseEntrance(name, entrance) ==
    /\ phase = "acting"
    /\ \E r \in {use_entrance(WORLD, name, entrance)} :
          /\ WORLD' = r.w
          /\ last' = [Meta("use_entrance", name, NoName, r.ok, r.err)
                        EXCEPT !.kind = r.status, !.note = entrance]
    /\ UNCHANGED <<cur, phase, since>>

InitScenes ==
    /\ WORLD = World(<<"A", "B", "C">>,
                     [A |-> <<0, 0>>, B |-> <<MaxX, 0>>, C |-> <<0, 0>>, D |-> NoPos],
                     [A |-> "s1", B |-> "s1", C |-> "s2", D |-> NoName],
                     [A |-> <<>>, B |-> <<>>, C |-> [key |-> 1], D |-> <<>>])
    /\ cur = 1
    /\ phase = "start"
    /\ last = Meta("init", NoName, NoName, TRUE, "")
    /\ since = [n \in Actors |-> 0]

NextScenes ==
    /\ WORLD.version < MaxVersionScenes
    /\ \/ TurnStart
       \/ TurnEnd
       \/ \E n \in SceneActors, e \in EntranceTerms : UseEntrance(n, e)
       \/ \E n \in SceneActors : Move(n, <<0, MaxY>>, 1)
       \/ \E n \in SceneActors : Damage(n, MaxHP)
       \/ \E n \in SceneActors : AddStatus(n, "rooted", 1)

SpecScenes == InitScenes /\ [][NextScenes]_vars

----------------------------------------------------------------------------
(* Specification of hits and misses: A, armed and with MP to spare,        *)
(* strikes B and casts at B with every pairing of the two d100             *)

MaxVersionHit == 5

HitRolls == {5, 35, 90, 95}
HitArts == {"bolt", "mend", "bind"}

\* the attack, its response carrying the two d100 of the check
AttackOpposed(attacker, defender, weapon, ra, rb, total) ==
    /\ phase = "acting"
    /\ \E r \in {attack_with_weapon(WORLD, attacker, defender, weapon, ra, rb, total)} :
          /\ WORLD' = r.w
          /\ last' = [r.meta EXCEPT !.ra = ra, !.rb = rb]
    /\ since' = Since(WORLD, WORLD', NoName)
    /\ UNCHANGED <<cur, phase>>

\* the cast, its response carrying the two d100 of the check
CastOpposed(attacker, art, target, rl) ==
    /\ phase = "acting"
    /\ \E r \in {cast_arts(WORLD, attacker, art, target, None, rl)} :
          /\ WORLD' = r.w
          /\ last' = [r.meta EXCEPT !.ra = rl.ra, !.rb = rl.rb]
    /\ since' = Since(WORLD, WORLD', NoName)
    /\ UNCHANGED <<cur, phase>>

InitHit ==
    /\ WORLD = [World(<<"A", "B">>,
                      [A |-> <<0, 0>>, B |-> <<1, 0>>, C |-> <<2, 0>>, D |-> <<2, 1>>],
                      [n \in Actors |-> "s1"],
                      [n \in Actors |-> IF n = "A" THEN [sword |-> 1] ELSE <<>>])
                EXCEPT !.characters["A"].mp = 2 * MaxVersionHit,
                       !.characters["A"].max_mp = 2 * MaxVersionHit]
    /\ cur = 1
    /\ phase = "start"
    /\ last = Meta("init", NoName, NoName, TRUE, "")
    /\ since = [n \in Actors |-> 0]

NextHit ==
    /\ WORLD.version < MaxVersionHit
    /\ \/ TurnStart
       \/ TurnEnd
       \/ \E ra \in HitRolls, rb \in HitRolls, total \in DiceTotals(weapon_defs["sword"].damage) :
             AttackOpposed("A", "B", "sword", ra, rb, total)
       \/ \E art \in HitArts :
            \E rl \in CastDraws(WORLD, "A", art, HitRolls, CastExposures) :
                CastOpposed("A", art, "B", rl)

SpecHit == InitHit /\ [][NextHit]_vars

----------------------------------------------------------------------------
(* Specification of protection links among attackers: the armed A and C    *)
(* stand next to B; anyone may be registered as protector of anyone        *)

MaxVersionWard == 5

Wards == {"A", "B", "C"}
WardAttackers == {"A", "C"}

InitWard ==
    /\ WORLD = World(<<"A", "B", "C">>,
                     [A |-> <<1, 0>>, B |-> <<0, 0>>, C |-> <<0, 1>>, D |-> <<2, 1>>],
                     [n \in Actors |-> "s1"],
                     [n \in Actors |-> IF n \in WardAttackers THEN [sword |-> 1] ELSE <<>>])
    /\ cur = 1
    /\ phase = "start"
    /\ last = Meta("init", NoName, NoName, TRUE, "")
    /\ since = [n \in Actors |-> 0]

NextWard ==
    /\ WORLD.version < MaxVersionWard
    /\ \/ TurnStart
       \/ TurnEnd
       \/ \E a \in WardAttackers, ra \in AttackRolls, rb \in DefenceRolls,
             total \in DiceTotals(weapon_defs["sword"].damage) :
                Attack(a, "B", "sword", ra, rb, total)
       \/ \E g \in Wards, p \in Wards : SetGuard(g, p)

SpecWard == InitWard /\ [][NextWard]_vars

----------------------------------------------------------------------------
(* Specification of exposures by their rolls: A, infected, is exposed with *)
(* every pairing of stress rolled and resistance roll                      *)

MaxVersionFlare == 6

\* the tool call apply_exposure(name, level), its response carrying the
\* stress rolled and the d100 of the resistance check
ApplyExposureRolled(name, level, raw, r) ==
    /\ phase = "acting"
    /\ WORLD' = apply_exposure(WORLD, name, 0, raw, r)
    /\ last' = [Meta("apply_exposure", name, NoName, TRUE, "")
                  EXCEPT !.kind = level, !.rolled = raw, !.ra = r.roll]
    /\ since' = Since(WORLD, WORLD', NoName)
    /\ UNCHANGED <<cur, phase>>

NextFlare ==
    /\ WORLD.version < MaxVersionFlare
    /\ \/ TurnStart
       \/ TurnEnd
       \/ \E level \in ExposureLevels, roll \in ResistRolls :
            \E raw \in Extremes(ExposureDice(level, NoDice)) :
                ApplyExposureRolled("A", level, raw, ExposureRolls(roll, 60, 1, 60, 1))

SpecFlare == InitExposure /\ [][NextFlare]_vars

----------------------------------------------------------------------------
(* Specification of the event clock: events that hurt or mend B are        *)
(* scheduled at any minute, past ones included, while the clock advances   *)

MaxVersionTimeline == 5
MaxEvents == 2

\* an event named after its one effect
TimedEvent(kind, at_min) ==
    [name |-> kind, at |-> at_min,
     effects |-> <<Effect(kind, "B", 1, NoName, NoName)>>]

\* s with the event ev placed after the events scheduled no later than it,
\* as the stable sort by "at" leaves it when ev is appended to a sorted s
RECURSIVE SortedInsert(_, _)
SortedInsert(s, ev) ==
    IF s = <<>> THEN <<ev>>
    ELSE IF Head(s).at <= ev.at THEN <<Head(s)>> \o SortedInsert(Tail(s), ev)
    ELSE <<ev>> \o s

schedule_event(w, name, at_min, effects) ==
    [w EXCEPT !.events =
        SortedInsert(@, [name |-> name, at |-> at_min, effects |-> effects])]

ScheduleEvent(ev) ==
    /\ phase = "acting"
    /\ Len(WORLD.events) < MaxEvents
    /\ WORLD' = schedule_event(WORLD, ev.name, ev.at, ev.effects)
    /\ last' = [Meta("schedule_event", NoName, NoName, TRUE, "") EXCEPT !.note = ev.name]
    /\ UNCHANGED <<cur, phase, since>>

InitTimeline ==
    /\ \E events \in {<<>>, <<TimedEvent("damage", 1)>>} :
         WORLD = [World(<<"A", "B">>,
                        [A |-> <<0, 0>>, B |-> <<1, 0>>, C |-> <<2, 0>>, D |-> <<2, 1>>],
                        [n \in Actors |-> "s1"],
                        [n \in Actors |-> <<>>])
                  EXCEPT !.events = events]
    /\ cur = 1
    /\ phase = "start"
    /\ last = Meta("init", NoName, NoName, TRUE, "")
    /\ since = [n \in Actors |-> 0]

NextTimeline ==
    /\ WORLD.version < MaxVersionTimeline
    /\ \/ TurnStart
       \/ TurnEnd
       \/ \E mins \in 0..2 : AdvanceTime(mins)
       \/ \E kind \in {"damage", "heal"}, at_min \in 0..MaxTime :
             ScheduleEvent(TimedEvent(kind, at_min))

SpecTimeline == InitTimeline /\ [][NextTimeline]_vars

----------------------------------------------------------------------------
(* Specification of the soft pause with its scheduling: the turn loop and  *)
(* the gate as above, the requests and resumes of the pages never held     *)
(* back, and the event loop running the blocked coroutine whenever it can: *)
(* the paused message is sent in the end and a waiter whose event is set   *)
(* wakes in the end                                                        *)

NextPauseRun ==
    \/ /\ WORLD.version < MaxVersionPause
       /\ \/ TurnStart
          \/ TurnEndAtGate
          \/ \E n \in {"A", "B"} : Move(n, <<MaxX, MaxY>>, 1)
          \/ \E n \in {"A", "B"} : UseAction(n, "action")
    \/ RequestPause
    \/ Resume
    \/ Notified
    \/ Wake

SpecPauseRun ==
    InitPause /\ [][NextPauseRun]_vars /\ WF_vars(Notified) /\ WF_vars(Wake)

----------------------------------------------------------------------------
(* Properties of the hit-point life cycle *)

Hp(w, n) == w.characters[n].hp
Left(w, n) == w.characters[n].dying_turns_left

\* the last engine call handed an amount to damage() for actor n
Damaged(m, n) == m.dmg # None /\ m.target = n

\* C1: damage that takes an actor with hp above 0, not dying, to hp 0 or
\* below leaves it dying with hp 0 and the configured countdown, never dead
C1_FirstHitEntersDying ==
    [][\A n \in Actors :
        (/\ Damaged(last', n)
         /\ Hp(WORLD, n) > 0
         /\ ~_is_dying(WORLD, n)
         /\ Hp(WORLD, n) - last'.dmg <= 0)
        => (/\ Hp(WORLD', n) = 0
            /\ Left(WORLD', n) = DYING_TURNS_DEFAULT
            /\ ~is_dead(WORLD', n))]_vars

\* the first wound of an actor has just put it into the dying state
C1_Witness ==
    /\ last.op = "damage"
    /\ last.dmg >= MaxHP
    /\ WORLD.characters[last.target].injury_id = 1
    /\ Left(WORLD, last.target) = DYING_TURNS_DEFAULT

\* C2: damage of any amount to an actor that is dying kills it at once:
\* hp 0, dying flag cleared, whatever the countdown was
C2_HitWhileDyingKills ==
    [][\A n \in Actors :
        (Damaged(last', n) /\ _is_dying(WORLD, n))
        => (/\ is_dead(WORLD', n)
            /\ Hp(WORLD', n) = 0
            /\ Left(WORLD', n) = None
            /\ "dying" \notin DOMAIN WORLD'.conditions[n])]_vars

\* a hit of amount 0 has just killed an actor whose countdown had not run out
C2_Witness ==
    /\ last.op = "damage"
    /\ last.dmg = 0
    /\ is_dead(WORLD, last.target)
    /\ since[last.target] = 0
    /\ "dead" \in DOMAIN WORLD.conditions[last.target]

\* C3: an end-of-turn tick of a dying actor kills it exactly when it is the
\* DYING_TURNS_DEFAULT-th tick of its own turns since it entered dying, and
\* leaves it dying before that
C3_CountdownExpires ==
    [][\A n \in Actors :
        (last'.op = "tick" /\ last'.actor = n /\ _is_dying(WORLD, n))
        => (/\ since'[n] <= DYING_TURNS_DEFAULT
            /\ is_dead(WORLD', n) <=> since'[n] = DYING_TURNS_DEFAULT
            /\ _is_dying(WORLD', n) <=> since'[n] < DYING_TURNS_DEFAULT)]_vars

\* the countdown has just run out at the actor's own end of turn
C3_Witness ==
    /\ last.op = "tick"
    /\ is_dead(WORLD, last.actor)
    /\ since[last.actor] = DYING_TURNS_DEFAULT

\* the last engine call healed actor n, or was a successful first aid on it
Treated(m, n) ==
    /\ m.target = n
    /\ \/ m.healed # None
       \/ m.op = "first_aid" /\ m.ok

\* C4 as stated: any heal of a dying actor, and any successful first aid on
\* it, leaves it not dying with hp of at least 1
C4_AnyHealRevives ==
    [][\A n \in Actors :
        (Treated(last', n) /\ _is_dying(WORLD, n))
        => (~_is_dying(WORLD', n) /\ Hp(WORLD', n) >= 1)]_vars

\* C4 amended: a heal of at least 1 of a dying actor whose max_hp is at
\* least 1, and any successful first aid on a dying actor, leaves it not
\* dying with hp of at least 1
C4_PositiveHealRevives ==
    [][\A n \in Actors :
        (/\ Treated(last', n)
         /\ _is_dying(WORLD, n)
         /\ last'.healed # None => (last'.healed >= 1 /\ WORLD.characters[n].max_hp >= 1))
        => (/\ ~_is_dying(WORLD', n)
            /\ Hp(WORLD', n) >= 1
            /\ "dying" \notin DOMAIN WORLD'.conditions[n])]_vars

\* an actor that was dying has just been healed back above 0
C4_Witness ==
    /\ last.op = "heal"
    /\ last.healed >= 1
    /\ WORLD.characters[last.target].injury_id >= 1
    /\ Hp(WORLD, last.target) = 1
    /\ WORLD.version >= 2
    /\ "dead" \notin DOMAIN WORLD.conditions[last.target]
    /\ since[last.target] = 0

----------------------------------------------------------------------------
(* Properties of weapon attacks under protection *)

Reaction(w, n) == w.turn_state[n].reaction_available

Registered(w, g, p) == \E i \in 1..Len(w.guardians[p]) : w.guardians[p][i] = g

RegisteredAt(w, g, p) == CHOOSE i \in 1..Len(w.guardians[p]) : w.guardians[p][i] = g

\* a and b stand in one scene at known positions
Measurable(w, a, b) ==
    /\ (w.scene_of[a] = NoName \/ w.scene_of[b] = NoName \/ w.scene_of[a] = w.scene_of[b])
    /\ w.positions[a] # NoPos /\ w.positions[b] # NoPos

Apart(w, a, b) ==
    Abs(w.positions[a][1] - w.positions[b][1]) + Abs(w.positions[a][2] - w.positions[b][2])

Within(w, a, b, k) == Measurable(w, a, b) /\ Apart(w, a, b) <= k

\* g could intercept an attack of a on p made with the given reach
Eligible(w, a, g, p, reach) ==
    /\ Registered(w, g, p)
    /\ Hp(w, g) > 0
    /\ Reaction(w, g)
    /\ Within(w, g, p, 1)
    /\ Within(w, a, g, reach)

\* C6: an attack is never intercepted by a protector who, when the attack is
\* made, is not alive, has no reaction, stands more than 1 step from the
\* protectee or stands farther from the attacker than the weapon's reach
C6_InterceptorIsEligible ==
    [][(last'.op = "attack" /\ last'.guard # NoName) =>
          /\ Hp(WORLD, last'.guard) > 0
          /\ Reaction(WORLD, last'.guard)
          /\ Within(WORLD, last'.guard, last'.protected, 1)
          /\ Within(WORLD, last'.actor, last'.guard, last'.reach)]_vars

\* A has intercepted for B while D, also registered and within the weapon's
\* reach, has its reaction but stands in another scene than B
C6_Witness ==
    /\ last.op = "attack" /\ last.guard = "A" /\ last.protected = "B"
    /\ Registered(WORLD, "D", "B")
    /\ Reaction(WORLD, "D")
    /\ ~Within(WORLD, "D", "B", 1)

\* an attack on B went through to B although its registered protector A,
\* with its reaction and within the weapon's reach, stood 2 steps from B
C6_WitnessFar ==
    /\ last.op = "attack" /\ last.ok /\ last.guard = NoName /\ last.target = "B"
    /\ Registered(WORLD, "A", "B")
    /\ Reaction(WORLD, "A") /\ Hp(WORLD, "A") > 0
    /\ Within(WORLD, last.actor, "A", last.reach)
    /\ Measurable(WORLD, "A", "B") /\ Apart(WORLD, "A", "B") = 2

\* C7: an intercepted attack has the protector as its defender (a hit harms
\* the protector, not the protectee) and leaves the protector without
\* reaction; an attack on a protectee is not redirected to a protector that
\* has no reaction when the attack is made
C7_InterceptionSpendsReaction ==
    [][(last'.op = "attack") =>
          /\ (last'.guard # NoName =>
                /\ last'.target = last'.guard
                /\ ~Reaction(WORLD', last'.guard)
                /\ (last'.guard # last'.protected =>
                        WORLD'.characters[last'.protected] = WORLD.characters[last'.protected])
                /\ (last'.hit /\ last'.dmg > 0 =>
                        Hp(WORLD', last'.guard) < Hp(WORLD, last'.guard)))
          /\ \A g \in Actors : ~Reaction(WORLD, g) => last'.guard # g]_vars

\* a second attack on B went through to B: its protector A, still standing
\* next to it, had been hit in B's place and has no reaction left
C7_Witness ==
    /\ last.op = "attack" /\ last.ok /\ last.guard = NoName /\ last.target = "B"
    /\ Registered(WORLD, "A", "B")
    /\ ~Reaction(WORLD, "A")
    /\ Hp(WORLD, "A") > 0 /\ Hp(WORLD, "A") < MaxHP
    /\ Within(WORLD, "A", "B", 1)
    /\ Within(WORLD, last.actor, "A", last.reach)

\* C8: the protector that intercepts is at least as near to the attacker as
\* every other eligible protector, and registered before every eligible
\* protector that is equally near
C8_NearestThenEarliest ==
    [][(last'.op = "attack" /\ last'.guard # NoName) =>
          \A g \in Actors :
             (g # last'.guard /\ Eligible(WORLD, last'.actor, g, last'.protected, last'.reach)) =>
                \/ Apart(WORLD, last'.actor, last'.guard) < Apart(WORLD, last'.actor, g)
                \/ /\ Apart(WORLD, last'.actor, last'.guard) = Apart(WORLD, last'.actor, g)
                   /\ RegisteredAt(WORLD, last'.guard, last'.protected)
                        < RegisteredAt(WORLD, g, last'.protected)]_vars

\* the nearer protector D intercepted although A, farther from the attacker
\* and also able to intercept, was registered first
C8_Witness ==
    /\ last.op = "attack" /\ last.guard = "D" /\ last.protected = "B"
    /\ WORLD.guardians["B"] = <<"A", "D">>
    /\ Reaction(WORLD, "A") /\ Hp(WORLD, "A") > 0
    /\ Within(WORLD, "A", "B", 1)
    /\ Within(WORLD, last.actor, "A", last.reach)
    /\ Apart(WORLD, last.actor, "D") < Apart(WORLD, last.actor, "A")

\* the earlier registered of two equally near protectors intercepted
C8_WitnessTie ==
    /\ last.op = "attack" /\ last.guard = "D" /\ last.protected = "B"
    /\ WORLD.guardians["B"] = <<"D", "A">>
    /\ Reaction(WORLD, "A") /\ Hp(WORLD, "A") > 0
    /\ Within(WORLD, "A", "B", 1)
    /\ Within(WORLD, last.actor, "A", last.reach)
    /\ Apart(WORLD, last.actor, "D") = Apart(WORLD, last.actor, "A")

\* C9: an attack that gets as far as the distance gate with its final
\* defender in another scene, at no known position or beyond the weapon's
\* reach fails with out_of_reach; hit points and positions are unchanged and
\* nothing but an interceptor's spent reaction has changed
C9_OutOfReachChangesNothing ==
    [][(last'.op = "attack" /\ last'.reach # None) =>
          /\ (~Within(WORLD, last'.actor, last'.target, last'.reach) <=>
                    last'.err = "out_of_reach")
          /\ (last'.err = "out_of_reach" =>
                /\ ~last'.ok
                /\ WORLD'.characters = WORLD.characters
                /\ WORLD'.positions = WORLD.positions
                /\ \/ WORLD' = WORLD
                   \/ /\ last'.guard # NoName
                      /\ WORLD' = [WORLD EXCEPT
                            !.version = @ + 1,
                            !.turn_state[last'.guard].reaction_available = FALSE])]_vars

\* C attacked D, who stands within the weapon's reach on the grid but in
\* another scene
C9_Witness ==
    /\ last.op = "attack" /\ last.err = "out_of_reach"
    /\ last.actor = "C" /\ last.target = "D"
    /\ ~Measurable(WORLD, "C", "D")
    /\ Apart(WORLD, "C", "D") <= last.reach

\* C10: an attack with a weapon the attacker holds none of is refused, with
\* weapon_not_owned when the attacker may act and the weapon is defined; no
\* reaction is spent, no hit points change and the attacker stays where it is
C10_UnownedWeaponRejected ==
    [][(/\ last'.op = "attack"
        /\ ~(/\ last'.weapon \in DOMAIN WORLD.inventory[last'.actor]
             /\ WORLD.inventory[last'.actor][last'.weapon] >= 1)) =>
          /\ ~last'.ok
          /\ (~_blocked_action(WORLD, last'.actor, "attack") /\ last'.weapon \in DOMAIN weapon_defs
                => last'.err = "weapon_not_owned")
          /\ \A n \in Actors :
                /\ Reaction(WORLD', n) = Reaction(WORLD, n)
                /\ Hp(WORLD', n) = Hp(WORLD, n)
          /\ WORLD'.positions[last'.actor] = WORLD.positions[last'.actor]]_vars

\* the unarmed A attacked B with a bow it does not hold while D was
\* protecting B and could have intercepted an attack of that reach
C10_Witness ==
    /\ last.op = "attack" /\ last.err = "weapon_not_owned"
    /\ last.actor = "A" /\ last.target = "B" /\ last.weapon = "bow"
    /\ Eligible(WORLD, "A", "D", "B", 3)

----------------------------------------------------------------------------
(* Properties of the action gate *)

\* the action names under which each gated operation may be asked about
GatedAs ==
    [move |-> {"move"}, attack |-> {"attack"}, cast |-> {"cast"},
     set_guard |-> {"action"}, first_aid |-> {"action", "first_aid", "help"}]

\* C5: a move, attack, cast, guard registration or first aid attempted by an
\* actor for whom the action is blocked (dying, hp 0 or below, or under a
\* control status that covers the action) fails with an error type and
\* leaves the world as it was
C5_BlockedActionFailsClosed ==
    [][(/\ last'.op \in DOMAIN GatedAs
        /\ \E act \in GatedAs[last'.op] : _blocked_action(WORLD, last'.actor, act)) =>
          /\ ~last'.ok
          /\ last'.err # ""
          /\ WORLD' = WORLD]_vars

\* the dying A tried to register as B's protector and was refused
C5_Witness ==
    /\ last.op = "set_guard" /\ last.actor = "A"
    /\ ~last.ok /\ last.err = "attacker_unable"
    /\ _is_dying(WORLD, "A")

\* the silenced A, otherwise fit, tried to cast and was refused
C5_WitnessControl ==
    /\ last.op = "cast" /\ last.actor = "A"
    /\ ~last.ok /\ last.err = "attacker_unable"
    /\ Hp(WORLD, "A") > 0 /\ ~_is_dying(WORLD, "A")
    /\ DOMAIN WORLD.conditions["A"] = {"silenced"}

----------------------------------------------------------------------------
(* Properties of opposed checks *)

\* success tier the side n reached with its d100 in world w
Tier(w, n, skill, roll) == success_level(_coc_skill_value(w, n, skill), roll)

\* the opposed check of the last call drew rolls: neither side was dying
Rolled(w, m) == ~_is_dying(w, m.actor) /\ ~_is_dying(w, m.target)

\* whom the rule of the opposed check names the winner: the higher tier,
\* then the lower roll, then the defender
Favoured(la, lb, ra, rb, a, b) ==
    IF la > lb THEN a
    ELSE IF lb > la THEN b
    ELSE IF ra < rb THEN a
    ELSE b

\* C11: in an opposed check that rolls, the side with the higher success
\* tier wins, with equal tiers the lower raw roll wins, and with equal tiers
\* and equal rolls the defender wins; so with identical skill values and
\* identical rolls the defender wins. The check inside an attack or cast
\* follows the same rule.
C11_OpposedCheckOrder ==
    [][/\ (last'.op = "contest" /\ Rolled(WORLD, last'))
            => /\ last'.winner =
                    Favoured(Tier(WORLD, last'.actor, "Fighting_Blade", last'.ra),
                             Tier(WORLD, last'.target, "Dodge", last'.rb),
                             last'.ra, last'.rb, last'.actor, last'.target)
               /\ (/\ last'.ra = last'.rb
                   /\ _coc_skill_value(WORLD, last'.actor, "Fighting_Blade")
                        = _coc_skill_value(WORLD, last'.target, "Dodge"))
                    => last'.winner = last'.target
       /\ (last'.op = "attack_check" /\ Rolled(WORLD, last'))
            => last'.hit =
                (Favoured(success_level(IF last'.reach # None THEN last'.reach
                                        ELSE _coc_skill_value(WORLD, last'.actor,
                                                              "Fighting_Blade"),
                                        last'.ra),
                          Tier(WORLD, last'.target, "Dodge", last'.rb),
                          last'.ra, last'.rb, last'.actor, last'.target)
                 = last'.actor)]_vars

\* both sides passed with the same skill value and the same roll, and the
\* defender was named the winner
C11_Witness ==
    /\ last.op = "contest"
    /\ Rolled(WORLD, last)
    /\ last.ra = last.rb
    /\ _coc_skill_value(WORLD, last.actor, "Fighting_Blade")
         = _coc_skill_value(WORLD, last.target, "Dodge")
    /\ Tier(WORLD, last.actor, "Fighting_Blade", last.ra) > 0
    /\ last.winner = last.target

\* the attacker won on the lower roll within one tier
C11_WitnessLowerRoll ==
    /\ last.op = "contest"
    /\ Rolled(WORLD, last)
    /\ Tier(WORLD, last.actor, "Fighting_Blade", last.ra)
         = Tier(WORLD, last.target, "Dodge", last.rb)
    /\ last.ra < last.rb
    /\ last.winner = last.actor

\* the higher tier won with the higher roll
C11_WitnessTier ==
    /\ last.op = "contest"
    /\ Rolled(WORLD, last)
    /\ Tier(WORLD, last.actor, "Fighting_Blade", last.ra)
         > Tier(WORLD, last.target, "Dodge", last.rb)
    /\ last.ra > last.rb
    /\ last.winner = last.actor

----------------------------------------------------------------------------
(* Properties of the turn resources *)

\* the resource of this kind is consumed for actor n
Consumed(w, n, kind) ==
    IF kind = "action" THEN w.turn_state[n].action_used
    ELSE IF kind = "bonus" THEN w.turn_state[n].bonus_used
    ELSE ~w.turn_state[n].reaction_available

\* the step is the reset of actor n's turn
ResetOf(n) == last'.op = "reset" /\ last'.actor = n

\* C12: use_action for action, bonus or reaction fails with resource_spent
\* and leaves the world as it was when the resource is already consumed,
\* and otherwise succeeds and marks it consumed; a consumed resource stays
\* consumed until the reset of that actor's turn, so the call succeeds at
\* most once between two consecutive resets.
C12_ResourceOncePerTurn ==
    [][/\ (last'.op = "use_action" /\ last'.kind \in ResourceKinds)
            => IF Consumed(WORLD, last'.actor, last'.kind)
               THEN /\ ~last'.ok
                    /\ last'.err = "resource_spent"
                    /\ WORLD' = WORLD
               ELSE /\ last'.ok
                    /\ Consumed(WORLD', last'.actor, last'.kind)
       /\ \A n \in Actors, k \in ResourceKinds :
            (Consumed(WORLD, n, k) /\ ~ResetOf(n)) => Consumed(WORLD', n, k)]_vars

\* a second call in the same turn was refused
C12_Witness ==
    /\ last.op = "use_action"
    /\ last.kind = "action"
    /\ ~last.ok
    /\ last.err = "resource_spent"
    /\ phase = "acting"
    /\ Consumed(WORLD, last.actor, "action")

\* a spent reaction was refused while the action was still free
C12_WitnessReaction ==
    /\ last.op = "use_action"
    /\ last.kind = "reaction"
    /\ last.actor = "A"
    /\ ~last.ok
    /\ WORLD.turn_state["A"].action_used = FALSE

\* the operations an actor or the host performs during a turn
TurnCalls ==
    {"use_action", "move", "attack", "cast", "set_guard", "clear_guard",
     "first_aid", "damage", "heal", "add_status"}

\* C13: an actor's turn resources are reset exactly once per turn: every
\* turn begins with the reset of the actor whose turn it is, which leaves
\* action, bonus action and reaction unspent and the movement budget at the
\* actor's speed; no reset happens later in the turn; the calls of a turn
\* come after its reset; and nothing but that reset hands a budget back.
C13_ResetOncePerTurn ==
    [][/\ (phase = "start" /\ phase' = "acting") => last'.op = "reset"
       /\ last'.op = "reset"
            => /\ phase = "start" /\ phase' = "acting"
               /\ last'.actor = WORLD.participants[cur]
               /\ WORLD'.turn_state[last'.actor]
                    = [action_used |-> FALSE, bonus_used |-> FALSE,
                       reaction_available |-> TRUE,
                       move_left |-> WORLD.speeds[last'.actor]]
               /\ \A n \in Actors \ {last'.actor} :
                    WORLD'.turn_state[n] = WORLD.turn_state[n]
       /\ last'.op \in TurnCalls => phase = "acting" /\ phase' = "acting"
       /\ \A n \in Actors :
            WORLD'.turn_state[n].move_left > WORLD.turn_state[n].move_left
                => ResetOf(n)]_vars

\* A's later turn began with its reset while B's spent action stayed spent
C13_Witness ==
    /\ last.op = "reset"
    /\ last.actor = "A"
    /\ WORLD.version >= 4
    /\ phase = "acting"
    /\ ~WORLD.turn_state["A"].action_used
    /\ WORLD.turn_state["A"].move_left = WORLD.speeds["A"]
    /\ WORLD.turn_state["B"].action_used

\* a status or life condition of n that blocks moving
BlocksMove(w, n) ==
    \/ _is_dying(w, n)
    \/ w.characters[n].hp <= 0
    \/ \E k \in DOMAIN w.conditions[n] :
          /\ k \in DOMAIN CONTROL_STATUS_RULES
          /\ CONTROL_STATUS_RULES[k] \cap {"all", "move"} # {}

\* C14: right after reset_actor_turn(actor) the actor is not blocked for
\* "move" unless a blocking status or a dying or dead condition was there
\* before the reset.
C14_ResetLeavesMoveFree ==
    [][last'.op = "reset"
        => (_blocked_action(WORLD', last'.actor, "move")
                => BlocksMove(WORLD, last'.actor))]_vars

\* A, silenced and with its movement used up, was reset and may move
C14_Witness ==
    /\ last.op = "reset"
    /\ last.actor = "A"
    /\ WORLD.positions["A"] = <<2, 0>>
    /\ "silenced" \in DOMAIN WORLD.conditions["A"]
    /\ ~_blocked_action(WORLD, "A", "move")

\* A was rooted before its reset and is still blocked after it
C14_WitnessRooted ==
    /\ last.op = "reset"
    /\ last.actor = "A"
    /\ "rooted" \in DOMAIN WORLD.conditions["A"]
    /\ _blocked_action(WORLD, "A", "move")

----------------------------------------------------------------------------
(* Properties of casting *)

Mp(w, n) == w.characters[n].mp

\* C15: a cast overcharges only when the art's MP cost is above zero and
\* the caster's MP does not cover it, and right after an overcharge the
\* caster's MP is exactly zero.
C15_OverchargeOnlyWhenShort ==
    [][(last'.op = "cast" /\ last'.overcharge)
        => /\ arts_defs[last'.weapon].mp.cost > 0
           /\ Mp(WORLD, last'.actor) < arts_defs[last'.weapon].mp.cost
           /\ Mp(WORLD', last'.actor) = 0]_vars

\* an overcharge emptied a caster whose MP was above zero but below the
\* cost of the art
C15_Witness ==
    /\ last.op = "cast"
    /\ last.overcharge
    /\ last.mp_spent > 0
    /\ Mp(WORLD, last.actor) = 0

\* an overcharge whose exposure took the caster a stage up, the derived
\* statistics being recomputed, left the MP at zero
C15_WitnessStage ==
    /\ last.op = "cast"
    /\ last.overcharge
    /\ WORLD.characters[last.actor].infection.stage > 0
    /\ Mp(WORLD, last.actor) = 0

\* a letter is left in the formula after the whitelisted substitution
LeftoverToken(expr) == expr.token # "" /\ expr.token \notin AbilityTokens

\* the art has a damage, heal or control-duration formula with such a letter
BadFormula(art) ==
    LET ad == arts_defs[art]
    IN  \/ "damage" \in DOMAIN ad /\ LeftoverToken(ad.damage)
        \/ "heal" \in DOMAIN ad /\ LeftoverToken(ad.heal)
        \/ "control" \in DOMAIN ad /\ LeftoverToken(ad.control.duration)

\* C16: a cast of an art whose damage, heal or control-duration formula
\* still holds an alphabetic token after substitution fails, and it spends
\* no MP, changes no hit points and adds no status.
C16_BadFormulaFailsClosed ==
    [][(last'.op = "cast" /\ BadFormula(last'.weapon))
        => /\ ~last'.ok
           /\ \A n \in Actors :
                /\ Mp(WORLD', n) = Mp(WORLD, n)
                /\ WORLD'.characters[n].hp = WORLD.characters[n].hp
                /\ WORLD'.conditions[n] = WORLD.conditions[n]]_vars

\* the stress dice of an overcharge from the lowest to the top step
StressLadder ==
    <<[n |-> 1, m |-> 4, k |-> 0], [n |-> 1, m |-> 6, k |-> 0],
      [n |-> 1, m |-> 6, k |-> 1], [n |-> 2, m |-> 6, k |-> 0],
      [n |-> 2, m |-> 6, k |-> 2]>>

\* place of a stress dice on the ladder
Rung(die) == CHOOSE i \in 1..Len(StressLadder) : StressLadder[i] = die

OverchargeStep(w, n) == w.characters[n].infection.overcharge_step

\* C17 as stated: of two overcharges in a row by the same caster, the later
\* is charged a higher stress dice than the earlier, unless the earlier was
\* already charged the top one.
C17_LaterOverchargeCostsMore ==
    [][(/\ last.op = "cast" /\ last.overcharge
        /\ last'.op = "cast" /\ last'.overcharge
        /\ last'.actor = last.actor
        /\ Rung(last.stress_die) < Len(StressLadder))
        => Rung(last'.stress_die) > Rung(last.stress_die)]_vars

\* C17 (amended): an overcharge is charged the stress dice of the caster's
\* overcharge step: 1d4 at step 0, then 1d6, 1d6+1, 2d6, and 2d6+2 from
\* step 4 on. No cast changes the step; only a stage advance that chose
\* "affinity" raises it, by one.
C17_StressDiceFollowsStep ==
    [][/\ (last'.op = "cast" /\ last'.overcharge)
            => last'.stress_die
                = StressLadder[Min(Max(0, OverchargeStep(WORLD, last'.actor)), 4) + 1]
       /\ last'.op = "cast"
            => \A n \in Actors : OverchargeStep(WORLD', n) = OverchargeStep(WORLD, n)
       /\ \A n \in Actors :
            OverchargeStep(WORLD', n) # OverchargeStep(WORLD, n)
                => /\ last'.op = "advance_infection_stage"
                   /\ last'.actor = n
                   /\ last'.kind = "affinity"
                   /\ OverchargeStep(WORLD', n) = OverchargeStep(WORLD, n) + 1]_vars

\* after one advance by affinity an overcharge was charged 1d6
C17_Witness ==
    /\ last.op = "cast"
    /\ last.overcharge
    /\ OverchargeStep(WORLD, last.actor) = 1
    /\ last.stress_die = [n |-> 1, m |-> 6, k |-> 0]

----------------------------------------------------------------------------
(* Properties of the ending verdict *)

Frozen(w) == w.ending_state.ended

Evaluations == {"evaluate_endings", "story_ended"}

\* the rules of w that hold in w, by their place in the loaded table
Satisfied(w) ==
    {i \in 1..Len(w.endings_defs) : _eval_when(w, w.endings_defs[i].when).ok}

\* i comes before j in descending priority, load order among equals
Before(w, i, j) ==
    \/ w.endings_defs[i].priority > w.endings_defs[j].priority
    \/ w.endings_defs[i].priority = w.endings_defs[j].priority /\ i < j

\* C18 as stated: once a verdict is frozen, no step replaces it, and every
\* evaluation returns it, whatever changed in between
C18_FrozenVerdictForever ==
    [][Frozen(WORLD) =>
          /\ WORLD'.ending_state = WORLD.ending_state
          /\ last'.op \in Evaluations => last'.verdict = WORLD.ending_state]_vars

\* C18 amended: once a verdict is frozen, every step but a reload of the
\* ending rules keeps it, every evaluation returns it (same id, label,
\* outcome, reasons) whatever changed in between, and a reload of the rules
\* (set_endings) clears it
C18_FrozenVerdictUntilReload ==
    [][Frozen(WORLD) =>
          IF last'.op = "set_endings" THEN WORLD'.ending_state = NoEnding
          ELSE /\ WORLD'.ending_state = WORLD.ending_state
               /\ last'.op \in Evaluations =>
                      last'.verdict = WORLD.ending_state]_vars

\* an evaluation has returned the frozen verdict of one rule while another
\* rule is the first satisfied one
C18_Witness ==
    /\ last.op = "evaluate_endings"
    /\ Frozen(WORLD)
    /\ last.verdict = WORLD.ending_state
    /\ last.matched_ids = NoIds
    /\ \E i \in Satisfied(WORLD) :
          /\ \A j \in Satisfied(WORLD) \ {i} : Before(WORLD, i, j)
          /\ WORLD.endings_defs[i].id # WORLD.ending_state.ending_id

\* the verdict of rule i of the table of w
VerdictOfRule(w, i, st) ==
    /\ st.ended
    /\ st.ending_id = w.endings_defs[i].id
    /\ st.label = w.endings_defs[i].label
    /\ st.outcome = w.endings_defs[i].outcome

\* C19: an evaluation made while no verdict is frozen freezes and returns
\* the verdict of the satisfied rule that comes first in descending
\* priority, load order among equal priorities; it freezes nothing when no
\* rule is satisfied
C19_FirstSatisfiedByPriority ==
    [][last'.op \in Evaluations /\ ~Frozen(WORLD) =>
          IF Satisfied(WORLD) = {}
          THEN ~Frozen(WORLD') /\ ~last'.verdict.ended
          ELSE \E i \in Satisfied(WORLD) :
                  /\ \A j \in Satisfied(WORLD) \ {i} : Before(WORLD, i, j)
                  /\ VerdictOfRule(WORLD, i, WORLD'.ending_state)
                  /\ last'.verdict = WORLD'.ending_state]_vars

\* an evaluation has just frozen the verdict of the second rule loaded:
\* three rules were satisfied, the first loaded has a lower priority and
\* the third the same priority
C19_Witness ==
    /\ last.op \in Evaluations
    /\ last.matched_ids = <<"wipe">>
    /\ WORLD.endings_defs = TableA
    /\ Satisfied(WORLD) = {1, 2, 3}
    /\ VerdictOfRule(WORLD, 2, WORLD.ending_state)

\* an evaluation found no satisfied rule and froze nothing
C19_WitnessNone ==
    /\ last.op \in Evaluations
    /\ last.matched_ids = <<>>
    /\ ~Frozen(WORLD)

\* the end effects of the timeline events of w due by time t, in queue order
DueEnds(w, t) ==
    LET due == SelectSeq(w.events, LAMBDA ev : ev.at <= t)
    IN  SelectSeq(ConcatAll([i \in 1..Len(due) |-> due[i].effects]),
                  LAMBDA eff : eff.kind = "end")

\* C20: the manual override, called directly or by an end effect of the
\* timeline, freezes a verdict with the id and note given whenever none
\* is frozen, and leaves the frozen verdict unchanged, and returns it,
\* when one is
C20_ManualOverrideIdempotent ==
    [][/\ last'.op = "end_now" =>
            /\ Frozen(WORLD')
            /\ last'.verdict = WORLD'.ending_state
            /\ IF Frozen(WORLD)
               THEN WORLD'.ending_state = WORLD.ending_state
               ELSE /\ WORLD'.ending_state.ending_id = last'.ending_id
                    /\ WORLD'.ending_state.label = last'.note
                    /\ WORLD'.ending_state.outcome = NoName
                    /\ WORLD'.ending_state.time_min = WORLD.time_min
       /\ last'.op = "advance_time" /\ DueEnds(WORLD, WORLD'.time_min) # <<>> =>
            /\ Frozen(WORLD')
            /\ IF Frozen(WORLD)
               THEN WORLD'.ending_state = WORLD.ending_state
               ELSE /\ WORLD'.ending_state.ending_id =
                           DueEnds(WORLD, WORLD'.time_min)[1].ending_id
                    /\ WORLD'.ending_state.label =
                           DueEnds(WORLD, WORLD'.time_min)[1].note]_vars

\* the override has been invoked on a frozen verdict with another id and
\* has returned the verdict already frozen
C20_Witness ==
    /\ last.op = "end_now"
    /\ Frozen(WORLD)
    /\ last.verdict = WORLD.ending_state
    /\ last.ending_id # WORLD.ending_state.ending_id

\* the override has frozen a verdict while no ending rule was satisfied
C20_WitnessForced ==
    /\ last.op = "end_now"
    /\ WORLD.ending_state.ending_id = "manual"
    /\ last.ending_id = "manual"
    /\ Satisfied(WORLD) = {}

\* an end effect of the timeline has frozen a verdict
C20_WitnessTimeline ==
    /\ last.op = "advance_time"
    /\ WORLD.ending_state.ending_id = "forced"

\* an end effect of the timeline came due on a frozen verdict and left it
C20_WitnessTimelineKept ==
    /\ last.op = "advance_time"
    /\ WORLD.events = <<>>
    /\ WORLD.time_min = 2
    /\ Frozen(WORLD)
    /\ WORLD.ending_state.ending_id # "forced"

----------------------------------------------------------------------------
(* Properties of the version counter *)

\* C21: the version never decreases, and a step that changed the world
\* left the version strictly greater
C21_MutationBumpsVersion ==
    [][/\ WORLD'.version >= WORLD.version
       /\ WORLD' # WORLD => WORLD'.version > WORLD.version]_vars

----------------------------------------------------------------------------
(* Properties of the schema gate *)

\* a required parameter of the tool is absent, null or empty
MissingField(tool, p) ==
    \E k \in TOOL_SPECS[tool].required : k \notin DOMAIN p \/ p[k].t = "null"
                                          \/ (p[k].t = "str" /\ p[k].s = "")

\* a parameter that must be a non-negative integer is not one
MalformedNumber(tool, p) ==
    \E k \in TOOL_SPECS[tool].numeric_min0 \cap DOMAIN p :
        ~ \/ p[k].t = "int" /\ p[k].n >= 0
          \/ p[k].t = "str" /\ p[k].s \in {Digits[i] : i \in 1..10}

\* the target of a move is neither two integers nor a text that names a
\* point the mover can go to
MalformedTarget(w, tool, p) ==
    /\ tool = "advance_position"
    /\ "target" \in DOMAIN p
    /\ p["target"].t # "list"
    /\ ~ /\ p["target"].t = "str"
         /\ \/ p["target"].s \in DOMAIN CoordLiterals
            \/ /\ p["target"].s \in Actors
               /\ w.positions[p["target"].s] # NoPos
               /\ \/ ActorText(p["name"]) \notin Actors
                  \/ NoName \in {w.scene_of[p["target"].s],
                                 w.scene_of[ActorText(p["name"])]}
                  \/ w.scene_of[p["target"].s] = w.scene_of[ActorText(p["name"])]

\* an actor parameter that the tool's participants policy covers names
\* nobody of the current participants
NonParticipant(w, tool, p) ==
    LET spec == TOOL_SPECS[tool]
        covered == IF spec.participants_policy = "both" THEN spec.actor_keys
                   ELSE IF spec.participants_policy = "source" THEN {spec.source_param}
                   ELSE {}
    IN  /\ w.participants # <<>>
        /\ \E k \in covered \cap DOMAIN p :
              /\ p[k].t \in {"str", "int"}
              /\ ActorText(p[k]) # ""
              /\ \A i \in 1..Len(w.participants) : w.participants[i] # ActorText(p[k])

FailsGate(w, tool, p) ==
    \/ tool \notin DOMAIN TOOL_SPECS
    \/ /\ tool \in DOMAIN TOOL_SPECS
       /\ \/ MissingField(tool, p)
          \/ MalformedNumber(tool, p)
          \/ MalformedTarget(w, tool, p)
          \/ NonParticipant(w, tool, p)

GateErrors ==
    {"unknown_tool", "missing_param", "invalid_type", "invalid_value",
     "not_participant"}

ToolNames == {c.tool : c \in SchemaCalls}

C22_WitnessNumber ==
    /\ last.op = "apply_exposure"
    /\ last.err = "invalid_type"
    /\ last.param = "bonus"

C22_WitnessTarget ==
    /\ last.op = "advance_position"
    /\ last.err = "invalid_value"
    /\ last.param = "target"

C22_WitnessMissing ==
    /\ last.op = "perform_attack"
    /\ last.err = "missing_param"
    /\ last.param = "weapon"

----------------------------------------------------------------------------
(* Properties of first aid *)

Injury(w, n) == w.characters[n].injury_id
AidedOn(w, n) == w.characters[n].first_aid_applied_on
Wounded(w, n) == 0 < Hp(w, n) /\ Hp(w, n) < w.characters[n].max_hp /\ ~_is_dying(w, n)

\* C23: a successful first aid on a wounded target that is not dying
\* restores one hit point, or none when the target's current injury was
\* already treated; the injury treated is remembered until first aid
\* treats another, and a new injury is counted only by damage above 0, so
\* no second hit point is restored for the same injury
C23_FirstAidOncePerInjury ==
    [][/\ \A n \in Actors :
            /\ last'.op = "first_aid" /\ last'.ok /\ last'.target = n
               /\ Wounded(WORLD, n) =>
                  IF AidedOn(WORLD, n) = Injury(WORLD, n)
                  THEN Hp(WORLD', n) = Hp(WORLD, n)
                  ELSE /\ Hp(WORLD', n) = Hp(WORLD, n) + 1
                       /\ AidedOn(WORLD', n) = Injury(WORLD, n)
            /\ AidedOn(WORLD', n) # AidedOn(WORLD, n) =>
                  /\ last'.op = "first_aid" /\ last'.ok /\ last'.target = n
                  /\ AidedOn(WORLD', n) = Injury(WORLD, n)
            /\ Injury(WORLD', n) # Injury(WORLD, n) =>
                  /\ last'.op = "damage" /\ last'.dmg > 0 /\ last'.target = n
                  /\ Injury(WORLD', n) = Injury(WORLD, n) + 1
            /\ Wounded(WORLD, n) => Injury(WORLD, n) > 0]_vars

\* a second successful first aid on the same injury has restored nothing:
\* the target is still two below its maximum, one hit point restored
C23_Witness ==
    /\ last.op = "first_aid"
    /\ last.ok
    /\ last.target = "B"
    /\ Wounded(WORLD, "B")
    /\ AidedOn(WORLD, "B") = Injury(WORLD, "B")
    /\ Injury(WORLD, "B") = 1
    /\ Hp(WORLD, "B") = AidHP - 1
    /\ WORLD.version >= 4

\* first aid has restored a hit point for a second injury
C23_WitnessNewInjury ==
    /\ last.op = "first_aid"
    /\ last.ok
    /\ AidedOn(WORLD, "B") = 2
    /\ Hp(WORLD, "B") = AidHP - 1

----------------------------------------------------------------------------
(* Properties of damage mitigation *)

\* the fixed mitigation of actor n against the damage type of the weapon
Mitigation(w, n, weapon) ==
    IF weapon_defs[weapon].damage_type = "arts"
    THEN Max(0, w.characters[n].arts_barrier)
    ELSE Max(0, w.characters[n].physical_armor)

\* C24: an attack that hits leaves the struck defender with its hit points
\* less the rolled total reduced by its mitigation for the weapon's damage
\* type, neither below zero; after any attack every actor has between 0
\* and max_hp hit points and no more than before
C24_HitAppliesMitigatedDamage ==
    [][last'.op = "attack" =>
          /\ \A n \in Actors :
                /\ 0 <= Hp(WORLD', n)
                /\ Hp(WORLD', n) <= WORLD'.characters[n].max_hp
                /\ Hp(WORLD', n) <= Hp(WORLD, n)
          /\ last'.hit =>
                /\ last'.dmg = Max(0, last'.rolled
                                      - Mitigation(WORLD, last'.target, last'.weapon))
                /\ Hp(WORLD', last'.target) =
                      Max(0, Hp(WORLD, last'.target) - last'.dmg)
          /\ ~last'.hit => \A n \in Actors : Hp(WORLD', n) = Hp(WORLD, n)]_vars

\* a hit rolled 2 against armour 1 and took one hit point
C24_Witness ==
    /\ last.op = "attack"
    /\ last.hit
    /\ last.target = "B"
    /\ last.weapon = "sword"
    /\ last.rolled = 2
    /\ last.dmg = 1
    /\ WORLD.characters["B"].physical_armor = 1
    /\ Hp(WORLD, "B") = MaxHP - 1

\* a hit whose whole roll was absorbed, by the barrier for an arts weapon
C24_WitnessAbsorbed ==
    /\ last.op = "attack"
    /\ last.hit
    /\ last.weapon = "wand"
    /\ last.rolled = 2
    /\ last.dmg = 0
    /\ WORLD.characters["B"].physical_armor = 0

\* a hit on the protector was reduced by the protector's own armour
C24_WitnessGuard ==
    /\ last.op = "attack"
    /\ last.hit
    /\ last.guard = "A"
    /\ last.target = "A"
    /\ last.weapon = "wand"
    /\ last.rolled = 3
    /\ last.dmg = 2
    /\ WORLD.characters["B"].arts_barrier = 2

----------------------------------------------------------------------------
(* Properties of the status timers *)

\* the actions a control status forbids
Forbids(k, act) ==
    \/ "all" \in CONTROL_STATUS_RULES[k]
    \/ act \in CONTROL_STATUS_RULES[k]

\* status k of actor n stands as its record says: an indefinite one is
\* present, a timed one is present with its duration less the ticks had
\* and blocks its actions until the ticks reach the duration, and is
\* absent from then on
Stands(w, n, k, h) ==
    LET st == w.conditions[n]
    IN  IF h.duration = None
        THEN k \in DOMAIN st /\ st[k].remaining = None
        ELSE IF h.ticks < h.duration
        THEN /\ k \in DOMAIN st
             /\ st[k].remaining = h.duration - h.ticks
             /\ \A act \in {"move", "attack", "cast"} :
                    Forbids(k, act) => _blocked_action(w, n, act)
        ELSE k \notin DOMAIN st

\* C25: every end-of-turn tick of an actor takes one off each of its timed
\* control statuses and removes those that ran out, so a status applied
\* with duration n >= 1 is present and blocks its actions (a move under it
\* is refused) until the bearer has had n end-of-turn ticks and is absent
\* from the n-th tick on, and an indefinite status stays through every tick
C25_StatusLastsItsDuration ==
    [][/\ \A n \in Actors : \A k \in DOMAIN since'[n] :
              Stands(WORLD', n, k, since'[n][k])
       /\ (/\ last'.op = "move"
           /\ \E k \in DOMAIN WORLD.conditions[last'.actor] : Forbids(k, "move"))
          => (~last'.ok /\ WORLD'.positions = WORLD.positions)]_vars

\* a status applied for two ticks has had one and has one left
C25_Witness ==
    \E n \in StatusBearers : \E k \in DOMAIN since[n] :
        /\ since[n][k] = [duration |-> 2, ticks |-> 1]
        /\ WORLD.conditions[n][k].remaining = 1
        /\ last.op = "tick" /\ last.actor = n

\* a timed status has run out at the tick just made
C25_WitnessExpired ==
    \E n \in StatusBearers : \E k \in DOMAIN since[n] :
        /\ since[n][k].duration = MaxDuration
        /\ since[n][k].ticks = MaxDuration
        /\ k \notin DOMAIN WORLD.conditions[n]
        /\ last.op = "tick" /\ last.actor = n

\* an indefinite status has been through two ticks
C25_WitnessIndefinite ==
    \E n \in StatusBearers : \E k \in DOMAIN since[n] :
        /\ since[n][k] = [duration |-> None, ticks |-> 2]
        /\ k \in DOMAIN WORLD.conditions[n]

\* a move was refused under a status that forbids it
C25_WitnessBlocked ==
    /\ last.op = "move" /\ ~last.ok
    /\ "rooted" \in DOMAIN WORLD.conditions["A"]
    /\ WORLD.conditions["A"]["rooted"].remaining = 1

----------------------------------------------------------------------------
(* Properties of the exposure track *)

StageOf(w, n) == w.characters[n].infection.stage
StressOf(w, n) == w.characters[n].infection.stress

\* C26: the exposure stage of every actor lies between 0 and 3 from the
\* load on and no step of the program lowers it
C26_StageRatchets ==
    /\ \A n \in Actors : StageOf(WORLD, n) \in 0 .. 3
    /\ [][\A n \in Actors :
            /\ StageOf(WORLD', n) \in 0 .. 3
            /\ StageOf(WORLD', n) >= StageOf(WORLD, n)]_vars

\* the stage advance was asked for at the top stage and refused
C26_Witness ==
    /\ last.op = "advance_infection_stage" /\ ~last.ok
    /\ StageOf(WORLD, "A") = 3

\* an exposure raised the stage
C26_WitnessExposure ==
    /\ last.op = "apply_exposure"
    /\ StageOf(WORLD, "A") = 3
    /\ WORLD.characters["A"].infection.crystal_density = 1

\* the stress threshold of a stage
StageThreshold(stage) ==
    CASE stage = 0 -> 0 [] stage = 1 -> 20 [] stage = 2 -> 50 [] stage = 3 -> 80

Floored(w, n) == StressOf(w, n) >= StageThreshold(StageOf(w, n))

\* C27: a step that raises an actor's stage leaves its stress at or above
\* the threshold of the new stage (0, 20, 50, 80), and once the stress is
\* at or above the threshold of the stage no step takes it below
C27_StressKeepsStageFloor ==
    [][\A n \in Actors :
            (StageOf(WORLD', n) > StageOf(WORLD, n) \/ Floored(WORLD, n))
                => Floored(WORLD', n)]_vars

\* a stage advance lifted the stress to the threshold of the new stage
C27_Witness ==
    /\ last.op = "advance_infection_stage" /\ last.ok
    /\ StageOf(WORLD, "A") = 1
    /\ StressOf(WORLD, "A") = 20

\* an exposure that took the stress past 100 raised the stage
C27_WitnessExposure ==
    /\ last.op = "apply_exposure"
    /\ StageOf(WORLD, "A") = 1
    /\ StressOf(WORLD, "A") > 100
    /\ WORLD.characters["A"].infection.crystal_density = 1

\* an exposure after an advance added to the floored stress
C27_WitnessAfter ==
    /\ last.op = "apply_exposure"
    /\ StageOf(WORLD, "A") = 3
    /\ StressOf(WORLD, "A") > 80
    /\ WORLD.characters["A"].infection.crystal_density = 1
    /\ WORLD.characters["A"].infection.severe_flare_count = 0

----------------------------------------------------------------------------
(* Properties of the sessions *)

Running(s) == phase[s] # "idle"

\* C28: a step taken for one session (a start, a story selection, an
\* engine call of its game) leaves the world used by every other session
\* whose game is running as it was
C28_SessionsOwnTheirWorlds ==
    [][\A s \in Sessions : \A t \in Sessions \ {s} :
            (last'.note = s /\ Running(t)) => WorldOf(t)' = WorldOf(t)]_vars

----------------------------------------------------------------------------
(* Properties of the soft pause *)

\* the steps in which the run calls the engine
EngineOps == {"reset", "skip", "tick", "move", "use_action"}

\* C29: a pause comes into effect only in the step that ends an actor's
\* turn, and only when it was requested; while the pause is in effect the
\* run stands at the gate between two turns, and no step calls the engine
\* or changes the world until a resume has lifted the pause
C29_PauseOnlyBetweenTurns ==
    [][/\ (since'.paused /\ ~since.paused)
            => /\ since.requested
               /\ phase = "acting" /\ phase' = "notify"
               /\ last'.op = "tick" /\ cur' = NextCur
       /\ since.paused
            => /\ phase \in {"notify", "waiting"}
               /\ WORLD' = WORLD
               /\ last'.op \notin EngineOps
               /\ (phase' \in {"start", "acting"} => ~since.paused')]_vars

\* the run is paused, waiting at the gate after a turn in which the actor
\* moved
C29_Witness ==
    /\ since.paused /\ ~since.resume_ev
    /\ phase = "waiting"
    /\ WORLD.positions["A"] # <<0, 0>>
    /\ cur = 2

\* a pause asked for in the middle of a turn has not taken hold yet
C29_WitnessRequested ==
    /\ since.requested /\ ~since.paused
    /\ phase = "acting"
    /\ last.op = "move"

\* the run goes on after a resume
C29_WitnessResumed ==
    /\ last.op = "resumed"
    /\ phase = "start"
    /\ ~since.paused

----------------------------------------------------------------------------
(* Properties of the movement budget *)

MoveLeft(w, n) == w.turn_state[n].move_left

\* C30: the steps an actor has moved since the last reset of its turn
\* never exceed its movement speed, what is left of its budget is never
\* below zero, and the steps counted are the steps the actor's position
\* has changed by
C30_MovesWithinBudget ==
    [][\A n \in Actors :
            /\ since'[n] <= WORLD'.speeds[n]
            /\ since'[n] + MoveLeft(WORLD', n) <= WORLD'.speeds[n]
            /\ MoveLeft(WORLD', n) >= 0
            /\ last'.op # "reset" =>
                  since'[n] - since[n]
                      = _grid_distance(WORLD.positions[n], WORLD'.positions[n])]_vars

\* a move that asked for more than the speed walked the whole budget and
\* no further
C30_Witness ==
    /\ last.op = "move" /\ last.ok
    /\ since["A"] = MoveSpeed
    /\ MoveLeft(WORLD, "A") = 0
    /\ _grid_distance(WORLD.positions["A"], <<0, 0>>) = MoveSpeed

\* with the budget spent a further move goes nowhere
C30_WitnessSpent ==
    /\ last.op = "move" /\ last.ok
    /\ since["B"] = 1
    /\ MoveLeft(WORLD, "B") = 0
    /\ WORLD.version = 2

\* after a reset the count starts again
C30_WitnessReset ==
    /\ last.op = "move"
    /\ since["A"] = 1
    /\ _grid_distance(WORLD.positions["A"], <<0, 0>>) = MaxX + MaxY


----------------------------------------------------------------------------
(* Properties of the scene graph *)

\* the worlds that differ from w at most in what the actor m carries, where
\* it stands and how many hit points it has
Outside(w, m) ==
    {[w EXCEPT !.inventory[m] = inv, !.positions[m] = pos, !.characters[m].hp = hp] :
        inv \in {<<>>, [key |-> 1]}, pos \in {<<0, 0>>, <<MaxX, MaxY>>}, hp \in 0..MaxHP}

\* C31: the view rendered for an actor holds no information about an actor
\* of another scene: whatever that actor carries, wherever it stands and
\* whatever its hit points, the view of the first actor is the same
C31_ScenesMutuallyInvisible ==
    \A n \in SceneActors, m \in SceneActors :
        (WORLD.scene_of[n] # NoName /\ WORLD.scene_of[m] # WORLD.scene_of[n])
        => \A w2 \in Outside(WORLD, m) :
              visible_snapshot_for(w2, n) = visible_snapshot_for(WORLD, n)


\* the actor may not move: _blocked_action refuses "move"
MoveBlocked(w, n) == _blocked_action(w, n, "move")

\* C38: an actor for whom movement is blocked does not change scene through
\* an entrance, not even when it stands on the tile of the entrance
C38_BlockedActorsStayInScene ==
    [][\A n \in SceneActors :
         (last'.op = "use_entrance" /\ last'.actor = n /\ MoveBlocked(WORLD, n))
         => WORLD'.scene_of[n] = WORLD.scene_of[n]]_vars


----------------------------------------------------------------------------
(* Properties of death *)

\* C32: death is absorbing: an actor that is dead (hp 0 and not dying) is
\* dead after every step, never dying again and never with hp above 0
C32_DeathIsAbsorbing ==
    [][\A n \in Actors : is_dead(WORLD, n) => is_dead(WORLD', n)]_vars


----------------------------------------------------------------------------
(* Properties of hits and misses *)

HitOps == {"attack", "cast"}

\* the skill the attacker rolls and the skill the defender rolls in the call
\* answered by m
SkillOf(m) ==
    IF m.op = "attack" THEN weapon_defs[m.weapon].skill ELSE arts_defs[m.weapon].cast_skill
ResistOf(m) ==
    IF m.op = "attack" THEN weapon_defs[m.weapon].defense_skill ELSE arts_defs[m.weapon].resist

\* the call answered by m was resolved by a roll that the attacker failed
AttackerFailed(w, m) ==
    /\ m.op \in HitOps /\ m.ok /\ ~m.overcharge
    /\ ~skill_check_coc(w, m.actor, SkillOf(m), m.ra)

\* the defender, not dying, failed its roll too, with the higher d100
DefenderFailedHigher(w, m) ==
    /\ ~_is_dying(w, m.target)
    /\ ~skill_check_coc(w, m.target, ResistOf(m), m.rb)
    /\ m.ra < m.rb

\* nothing was done to the actor n in the step
Untouched(n) ==
    /\ WORLD'.characters[n] = WORLD.characters[n]
    /\ WORLD'.conditions[n] = WORLD.conditions[n]

\* C33 as stated: when the attacker's roll is a failure the attack or cast
\* does not hit and applies no damage, healing or control effect, whatever
\* the defender rolled
C33_FailedRollNeverHits ==
    [][AttackerFailed(WORLD, last') => (~last'.hit /\ Untouched(last'.target))]_vars

\* C33 amended: when the attacker's roll is a failure the attack or cast
\* does not hit and applies no damage, healing or control effect, unless the
\* defender, not dying, failed too with a higher d100 than the attacker's
C33_FailedRollHitsOnlyWorseFailure ==
    [][(AttackerFailed(WORLD, last') /\ ~DefenderFailedHigher(WORLD, last'))
        => (~last'.hit /\ Untouched(last'.target))]_vars

\* a failed roll missed a defender that rolled a success
C33_Witness ==
    /\ last.op \in HitOps /\ last.ok /\ ~last.hit
    /\ last.ra = 90 /\ last.rb = 5

\* a failed roll hit a defender that failed with a higher d100
C33_WitnessBothFailed ==
    /\ last.op \in HitOps /\ last.hit
    /\ last.ra = 90 /\ last.rb = 95

\* a failed roll missed a dying defender
C33_WitnessDying ==
    /\ last.op = "attack" /\ last.ok /\ ~last.hit /\ last.ra = 35
    /\ _is_dying(WORLD, "B")


----------------------------------------------------------------------------
(* Properties of the choice of protector *)

\* C34: the protector that intercepts an attack is neither the attacker nor
\* the actor the attack was aimed at
C34_ProtectorIsAThirdActor ==
    [][(last'.op = "attack" /\ last'.guard # NoName)
        => (last'.guard # last'.actor /\ last'.guard # last'.protected)]_vars


----------------------------------------------------------------------------
(* Properties of the action of a turn *)

ActionOps == {"attack", "cast", "first_aid"}

\* C35: a weapon attack, cast or first aid that completes consumes the
\* action of the acting actor: the action was unused before and is used
\* after, so no second one completes before the next reset
C35_OneActionPerTurn ==
    [][(last'.op \in ActionOps /\ last'.ok)
        => (/\ ~WORLD.turn_state[last'.actor].action_used
            /\ WORLD'.turn_state[last'.actor].action_used)]_vars


----------------------------------------------------------------------------
(* Properties of the loss of the last hit point *)

\* C36: every step that takes a living actor from hp above 0 to hp 0 leaves
\* it dying, with the countdown running
C36_ZeroHpGoesThroughDying ==
    [][\A n \in Actors :
         (WORLD.characters[n].hp > 0 /\ WORLD'.characters[n].hp <= 0)
         => _is_dying(WORLD', n)]_vars


----------------------------------------------------------------------------
(* Properties of exposures that add no stress *)

\* the exposure answered by m added no stress in world w: nothing rolled,
\* or the resistance check an extreme success
ZeroGain(w, m) ==
    /\ m.op = "apply_exposure"
    /\ AdjustedStress(m.rolled, _infection_resist_target(w, m.actor, 0), m.ra) = 0

\* C37: an exposure that adds zero stress leaves the stage of the actor as
\* it was
C37_ZeroStressNeverEscalates ==
    [][ZeroGain(WORLD, last') => StageOf(WORLD', last'.actor) = StageOf(WORLD, last'.actor)]_vars


----------------------------------------------------------------------------
(* Properties of the event clock *)

\* the events of the sequence s in non-decreasing order of scheduled minute
ByMinute(s) == \A i \in 1..Len(s), j \in 1..Len(s) : i < j => s[i].at <= s[j].at

\* how many times the event ev stands in the sequence s
Occurrences(s, ev) == Cardinality({i \in 1..Len(s) : s[i] = ev})

\* the events of the queue of w that are due when the clock shows t, and the
\* others, each in queue order
DueAt(w, t) == SelectSeq(w.events, LAMBDA ev : ev.at <= t)
NotDueAt(w, t) == SelectSeq(w.events, LAMBDA ev : ev.at > t)

\* C39: an advance of the clock fires every queued event whose minute the
\* clock has reached and no other; the events it fires leave the queue and
\* their effects are applied once each, in non-decreasing order of minute;
\* no other step takes an event from the queue, so a fired event never fires
\* again and no event fires before its minute
C39_EventsFireOnceWhenDue ==
    [][IF last'.op = "advance_time"
       THEN /\ WORLD'.events = NotDueAt(WORLD, WORLD'.time_min)
            /\ ByMinute(DueAt(WORLD, WORLD'.time_min))
            /\ WORLD' = FireAll([WORLD EXCEPT !.time_min = WORLD'.time_min,
                                              !.version = @ + 1,
                                              !.events = WORLD'.events],
                                DueAt(WORLD, WORLD'.time_min))
       ELSE \A i \in 1..Len(WORLD.events) :
               Occurrences(WORLD'.events, WORLD.events[i])
                   >= Occurrences(WORLD.events, WORLD.events[i])]_vars

\* the clock has reached minute 2 and the queue is empty: the event that
\* hurt B and the event that mended it have both fired, in that order
C39_Witness ==
    /\ last.op = "advance_time"
    /\ WORLD.events = <<>>
    /\ WORLD.time_min = 2
    /\ WORLD.characters["B"].hp = MaxHP
    /\ WORLD.characters["B"].injury_id = 1

\* an advance left in the queue an event that is not yet due
C39_WitnessWaiting ==
    /\ last.op = "advance_time"
    /\ WORLD.time_min = 1
    /\ Len(WORLD.events) = 1
    /\ WORLD.events[1].at = 2
    /\ WORLD.characters["B"].injury_id = 1


----------------------------------------------------------------------------
(* Properties of the release from the pause *)

\* the run stands in the gate: sending the paused message or awaiting the
\* resume event
InGate == phase \in {"notify", "waiting"}

\* C40: a run that stands in the gate when resume() runs, be it awaiting
\* the resume event or still sending the paused message, goes on with the
\* next turn in the end; and a run that reaches the turn boundary with no
\* request standing (none made, or the last one cancelled by resume) passes
\* the gate without pausing
C40_ResumeAlwaysReleases ==
    /\ (InGate /\ last.op = "resume") ~> (phase = "start")
    /\ [][(last'.op = "tick" /\ ~since.requested)
            => (phase' = "start" /\ since' = since)]_vars

\* resume() has run while the gate was sending the paused message
C40_Witness == phase = "notify" /\ last.op = "resume"

\* resume() has run while the run awaited the resume event
C40_WitnessWaiting == phase = "waiting" /\ last.op = "resume"

\* the run has woken after a resume
C40_WitnessReleased == phase = "start" /\ last.op = "resumed"
====
